---------------------------- MODULE Spec2Model ----------------------------
(***************************************************************************)
(* Verification model of the A2A <-> LangChain reconciliation layer        *)
(* (src/src/converter.ts, src/src/tools.ts).                               *)
(*                                                                         *)
(* JavaScript values are modelled as tagged records so that values of      *)
(* different dynamic types can be compared:                                *)
(*   undefined, null, boolean, number, string, array, object.              *)
(* A string is a sequence of atoms.  An atom is either one JSON            *)
(* punctuation / whitespace character or an opaque word (a run of          *)
(* characters with no whitespace or JSON punctuation in it), so that       *)
(* trimming, joining and JSON parsing are computed on the text itself.     *)
(* An object is a function from property names (words) to values; a        *)
(* property that is not in the domain reads as undefined.                  *)
(***************************************************************************)
EXTENDS Integers, Sequences, FiniteSets, TLC

VARIABLES pc, msg, ai, out

vars == <<pc, msg, ai, out>>

-----------------------------------------------------------------------------
(* JavaScript values *)

Undef == [k |-> "undefined"]

Null == [k |-> "null"]

Bool(b) == [k |-> "boolean", b |-> b]

Num(n) == [k |-> "number", n |-> n]

Str(s) == [k |-> "string", s |-> s]

Arr(a) == [k |-> "array", a |-> a]

Obj(o) == [k |-> "object", o |-> o]

\* a one-word string
W(w) == Str(<<w>>)

EmptyStr == Str(<<>>)

EmptyObj == Obj(<<>>)

EmptyArr == Arr(<<>>)

\* property read: v[f] / v.f on a non-null value
Get(v, f) ==
    IF v.k = "object" /\ f \in DOMAIN v.o THEN v.o[f] ELSE Undef

\* typeof v === "object"
TypeofObject(v) == v.k \in {"object", "array", "null"}

\* typeof v === "string"
TypeofString(v) == v.k = "string"

\* Array.isArray(v)
IsArray(v) == v.k = "array"

\* JavaScript truthiness, as used by `!x`, `x && ...`, `x || ...`
Truthy(v) ==
    CASE v.k = "undefined" -> FALSE
      [] v.k = "null" -> FALSE
      [] v.k = "boolean" -> v.b
      [] v.k = "number" -> v.n # 0
      [] v.k = "string" -> Len(v.s) > 0
      [] OTHER -> TRUE

\* reading a property of v throws a TypeError exactly when v is null or undefined
ReadThrows(v) == v.k \in {"null", "undefined"}

isRecord(v) == v.k = "object"

-----------------------------------------------------------------------------
(* JSON.parse on atom sequences *)

Whitespace == {" ", "\n"}

DigitVal == [d \in {"0", "1", "2", "4"} |-> CASE d = "0" -> 0 [] d = "1" -> 1 [] d = "2" -> 2 [] OTHER -> 4]

\* the escapes of a string literal: `"` and newline are written \" and \n,
\* and an atom that is itself an escape is written with each of its
\* backslashes doubled and its `"` escaped
EscapeAtom(c) ==
    CASE c = "\"" -> "\\\""
      [] c = "\\\"" -> "\\\\\\\""
      [] c = "\\\\\\\"" -> "\\\\\\\\\\\\\\\""
      [] c = "\\\\\\\\\\\\\\\"" -> "\\\\\\\\\\\\\\\\\\\\\\\\\\\\\\\""
      [] c = "\n" -> "\\n"
      [] c = "\\n" -> "\\\\n"
      [] c = "\\\\n" -> "\\\\\\\\n"
      [] c = "\\\\\\\\n" -> "\\\\\\\\\\\\\\\\n"
      [] OTHER -> c

UnescapeAtom(c) ==
    CASE c = "\\\"" -> "\""
      [] c = "\\\\\\\"" -> "\\\""
      [] c = "\\\\\\\\\\\\\\\"" -> "\\\\\\\""
      [] c = "\\\\\\\\\\\\\\\\\\\\\\\\\\\\\\\"" -> "\\\\\\\\\\\\\\\""
      [] c = "\\n" -> "\n"
      [] c = "\\\\n" -> "\\n"
      [] c = "\\\\\\\\n" -> "\\\\n"
      [] c = "\\\\\\\\\\\\\\\\n" -> "\\\\\\\\n"
      [] OTHER -> c

ParseFail == [ok |-> FALSE, v |-> Undef, i |-> 0]

ParseOk(v, i) == [ok |-> TRUE, v |-> v, i |-> i]

RECURSIVE SkipWs(_, _)
SkipWs(t, i) ==
    IF i <= Len(t) /\ t[i] \in Whitespace THEN SkipWs(t, i + 1) ELSE i

\* index of the first `"` at or after i, 0 if there is none
RECURSIVE FindQuote(_, _)
FindQuote(t, i) ==
    IF i > Len(t) THEN 0
    ELSE IF t[i] = "\"" THEN i
    ELSE FindQuote(t, i + 1)

RECURSIVE ParseValue(_, _)
RECURSIVE ParseElems(_, _, _)
RECURSIVE ParseMembers(_, _, _)

\* after an element: `,` goes on with the next one, `]` ends the array
ElemsSep(t, acc, j) ==
    IF j > Len(t) THEN ParseFail
    ELSE IF t[j] = "," THEN ParseElems(t, j + 1, acc)
    ELSE IF t[j] = "]" THEN ParseOk(Arr(acc), j + 1)
    ELSE ParseFail

ElemsAfter(t, acc, r) ==
    IF ~r.ok THEN ParseFail ELSE ElemsSep(t, Append(acc, r.v), SkipWs(t, r.i))

\* the elements of an array after `[` or `,`; acc holds the elements read so far
ParseElems(t, i0, acc) == ElemsAfter(t, acc, ParseValue(t, i0))

\* the object o with property key set to v
Put(o, key, v) == [x \in (DOMAIN o) \cup {key} |-> IF x = key THEN v ELSE o[x]]

\* after a member: `,` goes on with the next one, `}` ends the object
MembersSep(t, m, j) ==
    IF j > Len(t) THEN ParseFail
    ELSE IF t[j] = "," THEN ParseMembers(t, j + 1, m)
    ELSE IF t[j] = "}" THEN ParseOk(Obj(m), j + 1)
    ELSE ParseFail

MemberValue(t, acc, key, r) ==
    IF ~r.ok THEN ParseFail ELSE MembersSep(t, Put(acc, key, r.v), SkipWs(t, r.i))

MemberColon(t, acc, key, c) ==
    IF c > Len(t) THEN ParseFail
    ELSE IF t[c] # ":" THEN ParseFail
    ELSE MemberValue(t, acc, key, ParseValue(t, c + 1))

\* a member starts with its key, a string literal of one word
MemberKey(t, acc, i, q) ==
    IF i > Len(t) THEN ParseFail
    ELSE IF t[i] # "\"" \/ q # i + 2 THEN ParseFail
    ELSE MemberColon(t, acc, t[i + 1], SkipWs(t, q + 1))

MemberStart(t, acc, i) == MemberKey(t, acc, i, FindQuote(t, i + 1))

\* the members of an object after `{` or `,`; acc holds the members read so far
ParseMembers(t, i0, acc) == MemberStart(t, acc, SkipWs(t, i0))

\* a string literal from its opening quote at i to its closing quote at q
ParseString(t, i, q) ==
    IF q = 0 \/ (\E n \in (i + 1)..(q - 1) : t[n] = "\n") THEN ParseFail
    ELSE ParseOk(Str([n \in 1..(q - i - 1) |-> UnescapeAtom(t[i + n])]), q + 1)

ParseArray(t, i, j) ==
    IF j <= Len(t) /\ t[j] = "]" THEN ParseOk(EmptyArr, j + 1)
    ELSE ParseElems(t, i + 1, <<>>)

ParseObject(t, i, j) ==
    IF j <= Len(t) /\ t[j] = "}" THEN ParseOk(EmptyObj, j + 1)
    ELSE ParseMembers(t, i + 1, <<>>)

ParseValueAt(t, i) ==
    IF i > Len(t) THEN ParseFail
    ELSE IF t[i] = "null" THEN ParseOk(Null, i + 1)
    ELSE IF t[i] = "true" THEN ParseOk(Bool(TRUE), i + 1)
    ELSE IF t[i] = "false" THEN ParseOk(Bool(FALSE), i + 1)
    ELSE IF t[i] \in DOMAIN DigitVal THEN ParseOk(Num(DigitVal[t[i]]), i + 1)
    ELSE IF t[i] = "\"" THEN ParseString(t, i, FindQuote(t, i + 1))
    ELSE IF t[i] = "[" THEN ParseArray(t, i, SkipWs(t, i + 1))
    ELSE IF t[i] = "{" THEN ParseObject(t, i, SkipWs(t, i + 1))
    ELSE ParseFail

ParseValue(t, i0) == ParseValueAt(t, SkipWs(t, i0))

ParseWhole(t, r) ==
    IF ~r.ok THEN ParseFail
    ELSE IF SkipWs(t, r.i) = Len(t) + 1 THEN r
    ELSE ParseFail

\* JSON.parse(text): [ok |-> FALSE] stands for the SyntaxError it throws
JSONParse(t) == ParseWhole(t, ParseValue(t, 1))

-----------------------------------------------------------------------------
(* String.prototype.trim, Array.prototype.join, JSON.stringify, String() *)

RECURSIVE TrimLeft(_)
TrimLeft(s) ==
    IF s # <<>> /\ Head(s) \in Whitespace THEN TrimLeft(Tail(s)) ELSE s

RECURSIVE TrimRight(_)
TrimRight(s) ==
    IF s # <<>> /\ s[Len(s)] \in Whitespace THEN TrimRight(SubSeq(s, 1, Len(s) - 1)) ELSE s

\* s.trim()
Trim(s) == TrimRight(TrimLeft(s))

\* strs.join(sep), on a sequence of atom sequences
RECURSIVE Join(_, _)
Join(strs, sep) ==
    IF strs = <<>> THEN <<>>
    ELSE IF Len(strs) = 1 THEN strs[1]
    ELSE strs[1] \o sep \o Join(Tail(strs), sep)

\* the property names of an object, in the order JSON.stringify emits them
\* (the model's objects keep no insertion order: one fixed order is used)
RECURSIVE KeySeq(_)
KeySeq(S) ==
    IF S = {} THEN <<>>
    ELSE LET x == CHOOSE y \in S : TRUE IN <<x>> \o KeySeq(S \ {x})

DigitOf(n) == CHOOSE d \in DOMAIN DigitVal : DigitVal[d] = n

RECURSIVE JSONStringify(_)
RECURSIVE StringifyElems(_)
RECURSIVE StringifyMembers(_, _)

StringifyElems(a) ==
    IF a = <<>> THEN <<>>
    ELSE IF Len(a) = 1 THEN JSONStringify(a[1])
    ELSE JSONStringify(a[1]) \o <<",">> \o StringifyElems(Tail(a))

StringifyMembers(o, keys) ==
    IF keys = <<>> THEN <<>>
    ELSE <<"\"", keys[1], "\"", ":">> \o JSONStringify(o[keys[1]])
         \o (IF Len(keys) = 1 THEN <<>> ELSE <<",">> \o StringifyMembers(o, Tail(keys)))

\* JSON.stringify(v) for a JSON value v (never undefined here)
JSONStringify(v) ==
    CASE v.k = "string" -> <<"\"">> \o [i \in 1..Len(v.s) |-> EscapeAtom(v.s[i])] \o <<"\"">>
      [] v.k = "number" -> <<DigitOf(v.n)>>
      [] v.k = "boolean" -> IF v.b THEN <<"true">> ELSE <<"false">>
      [] v.k = "array" -> <<"[">> \o StringifyElems(v.a) \o <<"]">>
      [] v.k = "object" -> <<"{">> \o StringifyMembers(v.o, KeySeq(DOMAIN v.o)) \o <<"}">>
      [] OTHER -> <<"null">>

\* String(v) of a number or boolean (converter.ts 599)
ToJSString(v) ==
    CASE v.k = "string" -> v.s
      [] v.k = "number" -> <<DigitOf(v.n)>>
      [] v.k = "boolean" -> IF v.b THEN <<"true">> ELSE <<"false">>
      [] OTHER -> <<v.k>>

-----------------------------------------------------------------------------
(* Outcomes of a call: a returned value or a thrown exception *)

Ret(v) == [st |-> "return", v |-> v]

Throw == [st |-> "throw", v |-> Undef]

None == [st |-> "none", v |-> Undef]

\* parts of a transport message
TextPart(text) == [kind |-> "text", text |-> text, data |-> Undef, metadata |-> Undef]

DataPart(data, metadata) == [kind |-> "data", text |-> Undef, data |-> data, metadata |-> metadata]

-----------------------------------------------------------------------------
(* src/src/tools.ts *)

\* one iteration of the loop of validateTools (tools.ts 104-146):
\* "ok" falls through to the next element, "reject" is `return false`,
\* "throw" is the TypeError of reading a property of null
validateTool(tool) ==
    LET fn == Get(tool, "function")
        params == Get(fn, "parameters")
    IN  IF \/ ~TypeofObject(tool)
           \/ tool = Null
           \/ Get(tool, "type") # W("function")
           \/ ~TypeofObject(fn)
        THEN "reject"
        ELSE IF ReadThrows(fn) THEN "throw"
        ELSE IF \/ ~TypeofString(Get(fn, "name"))
                \/ ~TypeofString(Get(fn, "description"))
                \/ ~TypeofObject(params)
        THEN "reject"
        ELSE IF ReadThrows(params) THEN "throw"
        ELSE IF \/ Get(params, "type") # W("object")
                \/ ~TypeofObject(Get(params, "properties"))
                \/ Get(params, "properties") = Null
        THEN "reject"
        ELSE IF Get(params, "required") # Undef /\ ~IsArray(Get(params, "required"))
        THEN "reject"
        ELSE "ok"

RECURSIVE validateToolsFrom(_, _)
validateToolsFrom(a, i) ==
    IF i > Len(a) THEN Ret(Bool(TRUE))
    ELSE LET r == validateTool(a[i])
         IN  IF r = "reject" THEN Ret(Bool(FALSE))
             ELSE IF r = "throw" THEN Throw
             ELSE validateToolsFrom(a, i + 1)

validateTools(tools) ==
    IF ~IsArray(tools) \/ Len(tools.a) = 0 THEN Ret(Bool(FALSE))
    ELSE validateToolsFrom(tools.a, 1)

\* the test of tools.ts 56-61: the data part carries a `tools` array
hasToolsArray(part) ==
    /\ part.kind = "data"
    /\ Truthy(part.data)
    /\ TypeofObject(part.data)
    /\ part.data.k = "object" /\ "tools" \in DOMAIN part.data.o
    /\ IsArray(Get(part.data, "tools"))

\* a variant that returns no tools as soon as a tools array fails validation
extractToolsStepStopsOnInvalid(part) ==
    IF ~hasToolsArray(part) THEN [st |-> "continue", v |-> Undef]
    ELSE LET tools == Get(part.data, "tools")
             valid == validateTools(tools)
         IN  IF valid.st = "throw" THEN Throw
             ELSE IF valid.v.b THEN Ret(tools)
             ELSE Ret(EmptyArr)

\* one iteration of the loop of extractToolsFromMessage (tools.ts 47-83):
\* st = "continue" goes on with the next part
extractToolsStep(part) ==
    IF ~hasToolsArray(part) THEN [st |-> "continue", v |-> Undef]
    ELSE LET tools == Get(part.data, "tools")
             valid == validateTools(tools)
         IN  IF valid.st = "throw" THEN Throw
             ELSE IF valid.v.b THEN Ret(tools)
             ELSE [st |-> "continue", v |-> Undef]

RECURSIVE extractToolsFrom(_, _)
extractToolsFrom(parts, i) ==
    IF i > Len(parts) THEN Ret(EmptyArr)
    ELSE LET r == extractToolsStep(parts[i])
         IN  IF r.st = "continue" THEN extractToolsFrom(parts, i + 1) ELSE r

extractToolsFromMessage(message) == extractToolsFrom(message.parts, 1)

-----------------------------------------------------------------------------
(* Inputs: transport messages carrying tool advertisements *)

\* the size of a message: its parts plus the tool definitions they carry
MaxToolsSize == 4

\* an object literal: properties whose value is undefined are absent
ObjOf(rec) == Obj([f \in {g \in DOMAIN rec : rec[g] # Undef} |-> rec[f]])

Params(type, properties, required) ==
    ObjOf([type |-> type, properties |-> properties, required |-> required])

ToolDef(type, name, description, parameters) ==
    ObjOf([type |-> type,
           function |-> ObjOf([name |-> name, description |-> description,
                               parameters |-> parameters])])

LocationProps == Obj([location |-> Obj([type |-> W("string")])])

GoodParams == Params(W("object"), LocationProps, Arr(<<W("location")>>))

weatherTool ==
    ToolDef(W("function"), W("get_weather"), Str(<<"Get", " ", "weather">>), GoodParams)

readFileTool ==
    ToolDef(W("function"), W("read_file"), Str(<<"Read", " ", "file">>),
            Params(W("object"), EmptyObj, Undef))

ToolPool ==
    { weatherTool,
      readFileTool,
      \* empty name, empty description
      ToolDef(W("function"), EmptyStr, W("desc"), GoodParams),
      ToolDef(W("function"), W("no_desc"), EmptyStr, GoodParams),
      \* the invalid tool of the test script: no type, no description, no parameters
      ObjOf([function |-> Obj([name |-> W("invalid_tool")])]),
      \* function: null, parameters: null
      Obj([type |-> W("function"), function |-> Null]),
      ToolDef(W("function"), W("f"), W("desc"), Null),
      \* parameters.type, properties, required out of shape
      ToolDef(W("function"), W("f"), W("desc"), Params(W("array"), LocationProps, Undef)),
      ToolDef(W("function"), W("f"), W("desc"), Params(W("object"), Null, Undef)),
      ToolDef(W("function"), W("f"), W("desc"), Params(W("object"), LocationProps, W("location"))),
      \* an element that is no object
      Null }

ToolsMetadata ==
    { Undef,
      Obj([type |-> W("tool-definitions"), format |-> W("langchain")]),
      Obj([type |-> W("langchain_ai_message")]) }

\* payloads of a data part before any tool is added to it
ToolsPayload ==
    { Obj([tools |-> EmptyArr]),
      Obj([someOtherData |-> W("value")]),
      Obj([tools |-> W("get_weather")]) }

RECURSIVE NumTools(_)
NumTools(parts) ==
    IF parts = <<>> THEN 0
    ELSE (IF hasToolsArray(Head(parts)) THEN Len(Get(Head(parts).data, "tools").a) ELSE 0)
         + NumTools(Tail(parts))

NewMessage ==
    [role |-> "user", messageId |-> W("m1"), parts |-> <<>>, taskId |-> Undef, contextId |-> Undef]

ToolsInit == pc = "build" /\ msg = NewMessage /\ ai = Undef /\ out = None

AddTextPart ==
    /\ pc = "build"
    /\ Len(msg.parts) + NumTools(msg.parts) < MaxToolsSize
    /\ msg' = [msg EXCEPT !.parts = Append(@, TextPart(W("hello")))]
    /\ UNCHANGED <<pc, ai, out>>

AddToolsDataPart ==
    /\ pc = "build"
    /\ Len(msg.parts) + NumTools(msg.parts) < MaxToolsSize
    /\ \E data \in ToolsPayload, metadata \in ToolsMetadata :
          msg' = [msg EXCEPT !.parts = Append(@, DataPart(data, metadata))]
    /\ UNCHANGED <<pc, ai, out>>

\* one more element in the tools array of the last part
AddTool ==
    /\ pc = "build"
    /\ msg.parts # <<>>
    /\ hasToolsArray(msg.parts[Len(msg.parts)])
    /\ Len(msg.parts) + NumTools(msg.parts) < MaxToolsSize
    /\ \E t \in ToolPool :
          LET n == Len(msg.parts)
              p == msg.parts[n]
              tools == Get(p.data, "tools")
          IN  msg' = [msg EXCEPT !.parts[n] =
                         DataPart(Obj([tools |-> Arr(Append(tools.a, t))]), p.metadata)]
    /\ UNCHANGED <<pc, ai, out>>

\* LLMAgentExecutor.execute, index.ts 248
ExtractTools ==
    /\ pc = "build"
    /\ out' = extractToolsFromMessage(msg)
    /\ pc' = "extracted"
    /\ UNCHANGED <<msg, ai>>

ToolsNext == AddTextPart \/ AddToolsDataPart \/ AddTool \/ ExtractTools

SpecTools == ToolsInit /\ [][ToolsNext]_vars

-----------------------------------------------------------------------------
(* Claims about tools.ts, checked under SpecTools *)

ToolsOf(part) == Get(part.data, "tools")

\* the parts of msg that carry a tools array
ToolParts == {i \in 1..Len(msg.parts) : hasToolsArray(msg.parts[i])}

Least(S) == CHOOSE i \in S : \A j \in S : i <= j

\* one of the rules C5 lists is broken by this element
ListedRuleViolated(tool) ==
    LET params == Get(Get(tool, "function"), "parameters")
        properties == Get(params, "properties")
        required == Get(params, "required")
    IN  \/ Get(tool, "type") # W("function")
        \/ Get(params, "type") # W("object")
        \/ properties = Null \/ ~TypeofObject(properties)
        \/ required # Undef /\ ~IsArray(required)

\* C5: validateTools rejects a tools array that is empty or holds one element
\* breaking a listed rule, and the result of extractToolsFromMessage is either
\* [] or the complete tools array of one data part.
C5_AcceptedAsAUnit ==
    pc = "extracted" =>
        /\ \A i \in ToolParts :
              LET tools == ToolsOf(msg.parts[i])
              IN  (tools = EmptyArr \/ \E j \in 1..Len(tools.a) : ListedRuleViolated(tools.a[j]))
                  => validateTools(tools) = Ret(Bool(FALSE))
        /\ \/ out = Ret(EmptyArr)
           \/ \E i \in ToolParts : out = Ret(ToolsOf(msg.parts[i]))

\* C6: validateTools returns true or false for every candidate list and never
\* throws, so extractToolsFromMessage never throws.
C6_ValidatorTotal == pc = "extracted" => out.st = "return"

\* C7: every tool of an accepted list has a non-empty name and a non-empty
\* description.
C7_NameAndDescriptionNonEmpty ==
    (pc = "extracted" /\ out.st = "return") =>
        \A j \in 1..Len(out.v.a) :
            LET fn == Get(out.v.a[j], "function")
            IN  /\ TypeofString(Get(fn, "name")) /\ Get(fn, "name") # EmptyStr
                /\ TypeofString(Get(fn, "description")) /\ Get(fn, "description") # EmptyStr

\* the part whose tools extractToolsFromMessage returned
DecidingParts == {i \in 1..Len(msg.parts) : extractToolsStep(msg.parts[i]).st # "continue"}

\* C8: tools are bound only from a data part whose metadata is absent or
\* declares type tool-definitions, never from a part that declares another type.
C8_OnlyToolDefinitionsBound ==
    (pc = "extracted" /\ out.st = "return" /\ out.v # EmptyArr) =>
        LET metadata == msg.parts[Least(DecidingParts)].metadata
        IN  ~isRecord(metadata) \/ Get(metadata, "type") = W("tool-definitions")

NotRejectedParts ==
    {i \in ToolParts : validateTools(ToolsOf(msg.parts[i])) # Ret(Bool(FALSE))}

-----------------------------------------------------------------------------
(* src/src/converter.ts: LangChain messages, as the fields given to their constructors *)

NoMessage ==
    [type |-> "none", content |-> Undef, id |-> Undef, tool_calls |-> Undef,
     invalid_tool_calls |-> Undef, additional_kwargs |-> Undef,
     response_metadata |-> Undef, usage_metadata |-> Undef, tool_call_id |-> Undef,
     name |-> Undef, artifact |-> Undef, status |-> Undef]

HumanMessage(content, id) ==
    [NoMessage EXCEPT !.type = "human", !.content = content, !.id = id]

\* a field that is undefined is a field the payload does not carry
AIMessage(payload) ==
    [NoMessage EXCEPT !.type = "ai", !.content = payload.content, !.id = payload.id,
                      !.tool_calls = payload.tool_calls,
                      !.invalid_tool_calls = payload.invalid_tool_calls,
                      !.additional_kwargs = payload.additional_kwargs,
                      !.response_metadata = payload.response_metadata,
                      !.usage_metadata = payload.usage_metadata]

ToolMessage(f) ==
    [NoMessage EXCEPT !.type = "tool", !.content = f.content, !.id = f.id,
                      !.tool_call_id = f.tool_call_id, !.name = f.name,
                      !.artifact = f.artifact, !.status = f.status]

RECURSIVE TextsOf(_)
\* a variant that keeps every part, a part without text joined as ""
RECURSIVE TextsOfEveryPart(_)
TextsOfEveryPart(parts) ==
    IF parts = <<>> THEN <<>>
    ELSE IF Head(parts).kind = "text" THEN <<Head(parts).text.s>> \o TextsOfEveryPart(Tail(parts))
    ELSE <<<<>>>> \o TextsOfEveryPart(Tail(parts))

TextsOf(parts) ==
    IF parts = <<>> THEN <<>>
    ELSE IF Head(parts).kind = "text" THEN <<Head(parts).text.s>> \o TextsOf(Tail(parts))
    ELSE TextsOf(Tail(parts))

extractTextContent(parts) == Str(Join(TextsOf(parts), <<"\n">>))

\* try { return JSON.parse(value) } catch { return value }
parsedOr(value, r) == IF r.ok THEN r.v ELSE value

\* a variant that keeps the text without parsing it
safeJsonParseKeepsText(value) == value

safeJsonParse(value) == parsedOr(value, JSONParse(value.s))

\* isRecord(parsed) ? parsed : {}
recordOrEmpty(parsed) == IF isRecord(parsed) THEN parsed ELSE EmptyObj

\* a variant that returns whatever the text parses to
coerceArgsUnchecked(value) ==
    IF TypeofString(value) THEN safeJsonParse(value)
    ELSE IF isRecord(value) THEN value
    ELSE EmptyObj

coerceArgs(value) ==
    IF TypeofString(value) THEN recordOrEmpty(safeJsonParse(value))
    ELSE IF isRecord(value) THEN value
    ELSE EmptyObj

\* a variant that prefers the error text to the output text
extractToolResponseTextErrorFirst(response) ==
    IF response = Undef \/ response = Null THEN Undef
    ELSE IF TypeofString(response) THEN response
    ELSE IF TypeofObject(response) /\ TypeofString(Get(response, "error")) THEN Get(response, "error")
    ELSE IF TypeofObject(response) /\ TypeofString(Get(response, "output")) THEN Get(response, "output")
    ELSE Str(JSONStringify(response))

extractToolResponseText(response) ==
    IF response = Undef \/ response = Null THEN Undef
    ELSE IF TypeofString(response) THEN response
    ELSE IF TypeofObject(response) /\ TypeofString(Get(response, "output")) THEN Get(response, "output")
    ELSE IF TypeofObject(response) /\ TypeofString(Get(response, "error")) THEN Get(response, "error")
    ELSE Str(JSONStringify(response))

\* the loop of parseToolMessageContent (converter.ts 629-649) over items[i..]
\* if (text) outputs.push(text)
pushIfText(text, rest) == IF Truthy(text) THEN <<text>> \o rest ELSE rest

RECURSIVE collectOutputs(_, _)
collectOutputs(items, i) ==
    IF i > Len(items) THEN <<>>
    ELSE IF ~Truthy(items[i]) \/ ~TypeofObject(items[i]) THEN collectOutputs(items, i + 1)
    ELSE IF \/ ~Truthy(Get(items[i], "functionResponse"))
            \/ ~TypeofObject(Get(items[i], "functionResponse"))
    THEN collectOutputs(items, i + 1)
    ELSE pushIfText(extractToolResponseText(Get(Get(items[i], "functionResponse"), "response")),
                    collectOutputs(items, i + 1))

\* Array.isArray(parsed) ? parsed : [parsed]
itemsOf(parsed) == IF IsArray(parsed) THEN parsed.a ELSE <<parsed>>

\* the result of the try branch (converter.ts 651-654)
parsedToolContent(trimmed, parsed, outputs) ==
    [outputs |-> IF Len(outputs) > 0 THEN outputs ELSE <<trimmed>>, artifact |-> parsed]

\* r is the outcome of JSON.parse(trimmed); the catch branch keeps rawContent
parseTrimmedContent(rawContent, trimmed, r) ==
    IF ~r.ok THEN [outputs |-> <<rawContent>>, artifact |-> rawContent]
    ELSE parsedToolContent(trimmed, r.v, collectOutputs(itemsOf(r.v), 1))

parseStringContent(rawContent, trimmed) ==
    IF ~Truthy(trimmed) THEN [outputs |-> <<>>, artifact |-> Undef]
    ELSE parseTrimmedContent(rawContent, trimmed, JSONParse(trimmed.s))

parseToolMessageContent(rawContent) ==
    IF ~TypeofString(rawContent) THEN [outputs |-> <<>>, artifact |-> rawContent]
    ELSE parseStringContent(rawContent, Str(Trim(rawContent.s)))

\* a variant that is a || b
CoalesceFalsy(a, b) == IF ~Truthy(a) THEN b ELSE a

\* a ?? b
Coalesce(a, b) == IF a = Undef \/ a = Null THEN b ELSE a

\* the ToolMessage of an entry whose content parsed to parsedContent
\* (converter.ts 545-569)
toolMessageOfParsed(entry, fallbackId, parsedContent) ==
    LET toolCallId ==
            IF TypeofString(Get(entry, "tool_call_id")) /\ Truthy(Get(entry, "tool_call_id"))
            THEN Get(entry, "tool_call_id")
            ELSE IF TypeofString(Get(entry, "id")) /\ Truthy(Get(entry, "id"))
            THEN Get(entry, "id")
            ELSE fallbackId
        textContent ==
            IF Len(parsedContent.outputs) > 0
            THEN Str(Join([i \in 1..Len(parsedContent.outputs) |-> parsedContent.outputs[i].s],
                          <<"\n", "\n">>))
            ELSE IF TypeofString(Get(entry, "content")) THEN Get(entry, "content")
            ELSE Str(JSONStringify(Coalesce(Get(entry, "content"), EmptyStr)))
    IN  ToolMessage([id |-> IF TypeofString(Get(entry, "id")) THEN Get(entry, "id") ELSE fallbackId,
                     content |-> textContent,
                     tool_call_id |-> toolCallId,
                     name |-> IF TypeofString(Get(entry, "name")) THEN Get(entry, "name") ELSE Undef,
                     artifact |-> Coalesce(parsedContent.artifact, Get(entry, "artifact")),
                     status |-> IF Get(entry, "status") \in {W("success"), W("error")}
                                THEN Get(entry, "status") ELSE Undef])

\* a variant that prefers the entry's id to its tool_call_id
constructToolMessageFromEntryIdFirst(entry, fallbackId) ==
    [toolMessageOfParsed(entry, fallbackId, parseToolMessageContent(Get(entry, "content")))
        EXCEPT !.tool_call_id =
            IF TypeofString(Get(entry, "id")) /\ Truthy(Get(entry, "id"))
            THEN Get(entry, "id")
            ELSE IF TypeofString(Get(entry, "tool_call_id")) /\ Truthy(Get(entry, "tool_call_id"))
            THEN Get(entry, "tool_call_id")
            ELSE fallbackId]

constructToolMessageFromEntry(entry, fallbackId) ==
    toolMessageOfParsed(entry, fallbackId, parseToolMessageContent(Get(entry, "content")))

\* a variant that converts a mapping with String() as well
normalizeAIContentStringifiesObject(rawContent, fallback) ==
    IF TypeofString(rawContent) THEN rawContent
    ELSE IF IsArray(rawContent) THEN rawContent
    ELSE IF rawContent = Undef \/ rawContent = Null THEN fallback
    ELSE IF TypeofObject(rawContent) THEN Str(<<"[object Object]">>)
    ELSE Str(ToJSString(rawContent))

normalizeAIContent(rawContent, fallback) ==
    IF TypeofString(rawContent) THEN rawContent
    ELSE IF IsArray(rawContent) THEN rawContent
    ELSE IF rawContent = Undef \/ rawContent = Null THEN fallback
    ELSE IF TypeofObject(rawContent) THEN rawContent
    ELSE Str(ToJSString(rawContent))

\* one iteration of the loop of parseToolCallsArray (converter.ts 695-717):
\* the tool call pushed for item, undefined when the item is skipped
canonicalToolCall(item) ==
    LET name == IF TypeofString(Get(item, "name")) THEN Get(item, "name") ELSE Undef
        args == coerceArgs(Get(item, "args"))
    IN  IF ~isRecord(item) \/ ~Truthy(name) THEN Undef
        ELSE ObjOf([name |-> name,
                    args |-> args,
                    id |-> IF TypeofString(Get(item, "id")) THEN Get(item, "id") ELSE Undef,
                    type |-> W("tool_call")])

\* one iteration of the loop of parseAdditionalToolCalls (converter.ts 739-767)
legacyToolCall(item) ==
    LET fn == Get(item, "function")
        name == IF TypeofString(Get(fn, "name")) THEN Get(fn, "name") ELSE Undef
        argsRaw == Get(fn, "arguments")
    IN  IF ~isRecord(item) \/ ~isRecord(fn) THEN Undef
        ELSE IF ~Truthy(name) \/ ~TypeofString(argsRaw) THEN Undef
        ELSE ObjOf([id |-> IF TypeofString(Get(item, "id")) THEN Get(item, "id") ELSE Undef,
                    name |-> name,
                    args |-> coerceArgs(argsRaw),
                    type |-> W("tool_call")])

\* the elements of a sequence that are not undefined, in order
RECURSIVE Defined(_)
Defined(a) ==
    IF a = <<>> THEN <<>>
    ELSE IF Head(a) = Undef THEN Defined(Tail(a))
    ELSE <<Head(a)>> \o Defined(Tail(a))

parseToolCallsArray(raw) ==
    IF ~IsArray(raw) THEN <<>>
    ELSE Defined([i \in 1..Len(raw.a) |-> canonicalToolCall(raw.a[i])])

parseAdditionalToolCalls(additional) ==
    LET raw == Get(additional, "tool_calls")
    IN  IF ~IsArray(raw) THEN <<>>
        ELSE Defined([i \in 1..Len(raw.a) |-> legacyToolCall(raw.a[i])])

\* the choice of normalizeToolCalls between the two parsed arrays (converter.ts 671-679)
firstNonEmpty(fromToolCalls, additionalToolCalls) ==
    IF Len(fromToolCalls) > 0 THEN Arr(fromToolCalls)
    ELSE IF Len(additionalToolCalls) > 0 THEN Arr(additionalToolCalls)
    ELSE Undef

\* a variant that prefers the legacy array
normalizeToolCallsLegacyFirst(raw, additional) ==
    firstNonEmpty(parseAdditionalToolCalls(additional), parseToolCallsArray(raw))

normalizeToolCalls(raw, additional) ==
    firstNonEmpty(parseToolCallsArray(raw), parseAdditionalToolCalls(additional))

\* { ...item, type: "invalid_tool_call" }
invalidToolCall(item) ==
    IF ~isRecord(item) THEN Undef
    ELSE Obj([f \in (DOMAIN item.o) \cup {"type"} |->
                 IF f = "type" THEN W("invalid_tool_call") ELSE item.o[f]])

\* a variant that returns the filtered array even when it is empty
normalizeInvalidToolCallsKeepsEmpty(raw) ==
    IF ~IsArray(raw) THEN Undef
    ELSE Arr(Defined([i \in 1..Len(raw.a) |-> invalidToolCall(raw.a[i])]))

normalizeInvalidToolCalls(raw) ==
    IF ~IsArray(raw) THEN Undef
    ELSE LET invalidCalls == Defined([i \in 1..Len(raw.a) |-> invalidToolCall(raw.a[i])])
         IN  IF Len(invalidCalls) > 0 THEN Arr(invalidCalls) ELSE Undef

\* the metadata of a data part when it is a non-null object, null otherwise
\* (converter.ts 386-389, 469-472)
metadataOf(part) ==
    IF TypeofObject(part.metadata) /\ Truthy(part.metadata) THEN part.metadata ELSE Null

\* a variant that builds the ToolMessage from the last entry of the array
toolMessageOfPartLastEntry(part, messageId) ==
    LET metadata == metadataOf(part)
        metadataFormat == IF TypeofString(Get(metadata, "format")) THEN Get(metadata, "format") ELSE Undef
        metadataType == IF TypeofString(Get(metadata, "type")) THEN Get(metadata, "type") ELSE Undef
        toolMessages == Get(part.data, "toolMessages")
    IN  IF part.kind # "data" THEN NoMessage
        ELSE IF ~Truthy(metadata) THEN NoMessage
        ELSE IF metadataFormat # W("langchain") \/ metadataType # W("tool-messages") THEN NoMessage
        ELSE IF ~Truthy(part.data) \/ ~TypeofObject(part.data) \/ IsArray(part.data) THEN NoMessage
        ELSE IF ~IsArray(toolMessages) \/ Len(toolMessages.a) = 0 THEN NoMessage
        ELSE IF \/ ~Truthy(toolMessages.a[Len(toolMessages.a)])
                \/ ~TypeofObject(toolMessages.a[Len(toolMessages.a)])
        THEN NoMessage
        ELSE constructToolMessageFromEntry(toolMessages.a[Len(toolMessages.a)], messageId)

\* a variant that skips a part whose declared count is not the array length
toolMessageOfPartCountChecked(part, messageId) ==
    LET metadata == metadataOf(part)
        metadataFormat == IF TypeofString(Get(metadata, "format")) THEN Get(metadata, "format") ELSE Undef
        metadataType == IF TypeofString(Get(metadata, "type")) THEN Get(metadata, "type") ELSE Undef
        metadataCount == IF Get(metadata, "count").k = "number" THEN Get(metadata, "count") ELSE Undef
        toolMessages == Get(part.data, "toolMessages")
    IN  IF part.kind # "data" THEN NoMessage
        ELSE IF ~Truthy(metadata) THEN NoMessage
        ELSE IF metadataFormat # W("langchain") \/ metadataType # W("tool-messages") THEN NoMessage
        ELSE IF ~Truthy(part.data) \/ ~TypeofObject(part.data) \/ IsArray(part.data) THEN NoMessage
        ELSE IF ~IsArray(toolMessages) \/ Len(toolMessages.a) = 0 THEN NoMessage
        ELSE IF metadataCount # Undef /\ metadataCount # Num(Len(toolMessages.a)) THEN NoMessage
        ELSE IF ~Truthy(toolMessages.a[1]) \/ ~TypeofObject(toolMessages.a[1]) THEN NoMessage
        ELSE constructToolMessageFromEntry(toolMessages.a[1], messageId)

\* one iteration of the loop of extractToolMessage (converter.ts 380-449):
\* the ToolMessage built from this part, NoMessage when the loop continues
toolMessageOfPart(part, messageId) ==
    LET metadata == metadataOf(part)
        metadataFormat == IF TypeofString(Get(metadata, "format")) THEN Get(metadata, "format") ELSE Undef
        metadataType == IF TypeofString(Get(metadata, "type")) THEN Get(metadata, "type") ELSE Undef
        toolMessages == Get(part.data, "toolMessages")
    IN  IF part.kind # "data" THEN NoMessage
        ELSE IF ~Truthy(metadata) THEN NoMessage
        ELSE IF metadataFormat # W("langchain") \/ metadataType # W("tool-messages") THEN NoMessage
        ELSE IF ~Truthy(part.data) \/ ~TypeofObject(part.data) \/ IsArray(part.data) THEN NoMessage
        ELSE IF ~IsArray(toolMessages) \/ Len(toolMessages.a) = 0 THEN NoMessage
        ELSE IF ~Truthy(toolMessages.a[1]) \/ ~TypeofObject(toolMessages.a[1]) THEN NoMessage
        ELSE constructToolMessageFromEntry(toolMessages.a[1], messageId)

\* `if (m) return m`, else what follows
orElse(m, rest) == IF m # NoMessage THEN m ELSE rest

\* the loop of extractToolMessage over parts[i..]: the first part that converts
RECURSIVE extractToolMessageFrom(_, _, _)
extractToolMessageFrom(parts, i, messageId) ==
    IF i > Len(parts) THEN NoMessage
    ELSE orElse(toolMessageOfPart(parts[i], messageId),
                extractToolMessageFrom(parts, i + 1, messageId))

extractToolMessage(message) == extractToolMessageFrom(message.parts, 1, message.messageId)

\* one iteration of the loop of extractAIMessage (converter.ts 463-529)
aiMessageOfPart(part, message) ==
    LET metadata == metadataOf(part)
        data == part.data
        fallbackContent == extractTextContent(message.parts)
        additional_kwargs ==
            IF isRecord(Get(data, "additional_kwargs")) THEN Get(data, "additional_kwargs") ELSE EmptyObj
        tool_calls == normalizeToolCalls(Get(data, "tool_calls"), additional_kwargs)
        invalid_tool_calls == normalizeInvalidToolCalls(Get(data, "invalid_tool_calls"))
    IN  IF part.kind # "data" THEN NoMessage
        ELSE IF ~Truthy(metadata) \/ Get(metadata, "type") # W("langchain_ai_message") THEN NoMessage
        ELSE IF ~Truthy(data) \/ ~TypeofObject(data) \/ IsArray(data) THEN NoMessage
        ELSE AIMessage(
                [id |-> IF TypeofString(Get(data, "id")) THEN Get(data, "id") ELSE message.messageId,
                 content |-> normalizeAIContent(Get(data, "content"), fallbackContent),
                 additional_kwargs |-> additional_kwargs,
                 response_metadata |-> IF isRecord(Get(data, "response_metadata"))
                                       THEN Get(data, "response_metadata") ELSE EmptyObj,
                 tool_calls |-> tool_calls,
                 invalid_tool_calls |-> invalid_tool_calls,
                 usage_metadata |-> IF isRecord(Get(data, "usage_metadata"))
                                    THEN Get(data, "usage_metadata") ELSE Undef])

RECURSIVE extractAIMessageFrom(_, _, _)

\* a variant in which a later part that converts wins over an earlier one
extractAIMessageFromLast(parts, i, message) ==
    IF i > Len(parts) THEN NoMessage
    ELSE orElse(extractAIMessageFrom(parts, i + 1, message),
                aiMessageOfPart(parts[i], message))

\* the loop of extractAIMessage over parts[i..]: the first part that converts
extractAIMessageFrom(parts, i, message) ==
    IF i > Len(parts) THEN NoMessage
    ELSE orElse(aiMessageOfPart(parts[i], message),
                extractAIMessageFrom(parts, i + 1, message))

extractAIMessage(message) == extractAIMessageFrom(message.parts, 1, message)

\* the plain-text fallback of a2aMessageToLangChain (converter.ts 324-347)
\* a variant that wraps the text of an unknown role as an AI message
plainTextMessageAgentDefault(message, content) ==
    IF message.role = "user" THEN HumanMessage(content, message.messageId)
    ELSE AIMessage([NoMessage EXCEPT !.content = content, !.id = message.messageId])

plainTextMessage(message, content) ==
    IF message.role = "user" THEN HumanMessage(content, message.messageId)
    ELSE IF message.role = "agent"
    THEN AIMessage([NoMessage EXCEPT !.content = content, !.id = message.messageId])
    ELSE HumanMessage(content, message.messageId)

\* a variant that tries the AI reconstruction before the tool result
a2aMessageToLangChainAIFirst(message) ==
    orElse(extractAIMessage(message),
           orElse(extractToolMessage(message),
                  plainTextMessage(message, extractTextContent(message.parts))))

\* a variant without the plain-text fallback
a2aMessageToLangChainNoFallback(message) ==
    orElse(extractToolMessage(message), extractAIMessage(message))

a2aMessageToLangChain(message) ==
    orElse(extractToolMessage(message),
           orElse(extractAIMessage(message),
                  plainTextMessage(message, extractTextContent(message.parts))))

a2aMessagesToLangChain(messages) ==
    [i \in 1..Len(messages) |-> a2aMessageToLangChain(messages[i])]

\* the text of one content block kept by extractContentText, as join() renders it
blockText(item) ==
    LET text == Get(item, "text")
    IN  IF text = Undef \/ text = Null THEN <<>> ELSE ToJSString(text)

RECURSIVE textBlocks(_)
textBlocks(items) ==
    IF items = <<>> THEN <<>>
    ELSE IF isRecord(Head(items)) /\ Get(Head(items), "type") = W("text")
    THEN <<blockText(Head(items))>> \o textBlocks(Tail(items))
    ELSE textBlocks(Tail(items))

extractContentText(content) ==
    IF TypeofString(content) THEN content
    ELSE IF IsArray(content) THEN Str(Join(textBlocks(content.a), <<"\n">>))
    ELSE EmptyStr

NoContentPlaceholder == Str(<<"[No", " ", "content", " ", "received", " ", "from", " ", "LLM]">>)

\* a variant that pushes the text part after the data part
langChainAIMessageToA2ATextLast(aiMessage, messageId, taskId, contextId) ==
    LET content == IF TypeofString(aiMessage.content) THEN aiMessage.content
                   ELSE extractContentText(aiMessage.content)
        textParts == IF Truthy(Str(Trim(content.s))) THEN <<TextPart(content)>> ELSE <<>>
        aiMessageData ==
            DataPart(ObjOf([content |-> aiMessage.content,
                            id |-> aiMessage.id,
                            tool_calls |-> aiMessage.tool_calls,
                            additional_kwargs |-> aiMessage.additional_kwargs,
                            response_metadata |-> aiMessage.response_metadata]),
                     Obj([description |-> Str(<<"LangChain", " ", "AIMessage">>),
                          type |-> W("langchain_ai_message")]))
        parts == <<aiMessageData>> \o textParts
    IN  [role |-> "agent",
         messageId |-> messageId,
         parts |-> IF Len(parts) = 0 THEN <<TextPart(NoContentPlaceholder)>> ELSE parts,
         taskId |-> taskId,
         contextId |-> contextId]

langChainAIMessageToA2A(aiMessage, messageId, taskId, contextId) ==
    LET content == IF TypeofString(aiMessage.content) THEN aiMessage.content
                   ELSE extractContentText(aiMessage.content)
        textParts == IF Truthy(Str(Trim(content.s))) THEN <<TextPart(content)>> ELSE <<>>
        aiMessageData ==
            DataPart(ObjOf([content |-> aiMessage.content,
                            id |-> aiMessage.id,
                            tool_calls |-> aiMessage.tool_calls,
                            additional_kwargs |-> aiMessage.additional_kwargs,
                            response_metadata |-> aiMessage.response_metadata]),
                     Obj([description |-> Str(<<"LangChain", " ", "AIMessage">>),
                          type |-> W("langchain_ai_message")]))
        parts == Append(textParts, aiMessageData)
    IN  [role |-> "agent",
         messageId |-> messageId,
         parts |-> IF Len(parts) = 0 THEN <<TextPart(NoContentPlaceholder)>> ELSE parts,
         taskId |-> taskId,
         contextId |-> contextId]

-----------------------------------------------------------------------------
(* Inputs: raw tool-call arrays of a langchain_ai_message payload *)

\* the number of entries of the canonical and the legacy array together
MaxCalls == 2

ArgsText == Str(<<"{", "\"", "a", "\"", ":", "1", "}">>)

ArgsValue == Obj([a |-> Num(1)])

CanonicalPool ==
    { Obj([name |-> W("f"), args |-> ArgsValue, id |-> W("call_1")]),
      Obj([name |-> W("g"), args |-> ArgsText]),
      Obj([name |-> W("f")]),
      Obj([name |-> W("f"), args |-> Str(<<"not", " ", "json">>), id |-> Num(1)]),
      Obj([name |-> W("f"), args |-> Str(<<"[", "1", "]">>)]),
      Obj([name |-> W("f"), args |-> Arr(<<Num(1)>>)]),
      Obj([name |-> W("f"), args |-> Null]),
      Obj([name |-> EmptyStr, args |-> ArgsValue]),
      Obj([name |-> Num(1), args |-> ArgsValue]),
      Null,
      W("f") }

LegacyCall(id, name, arguments) ==
    ObjOf([id |-> id, function |-> ObjOf([name |-> name, arguments |-> arguments])])

LegacyPool ==
    { LegacyCall(W("call_1"), W("f"), ArgsText),
      LegacyCall(Undef, W("g"), Str(<<"{", "}">>)),
      LegacyCall(Undef, W("f"), Str(<<"not", " ", "json">>)),
      LegacyCall(Undef, W("f"), W("null")),
      LegacyCall(Undef, W("f"), Undef),
      LegacyCall(Undef, W("f"), ArgsValue),
      LegacyCall(Undef, EmptyStr, ArgsText),
      Obj([function |-> Null]),
      Null }

\* the raw fields read by normalizeToolCalls; a field may be absent
NormInit ==
    /\ pc = "build"
    /\ msg = NewMessage
    /\ ai \in [tool_calls : {Undef, EmptyArr},
               additional_kwargs : {EmptyObj, Obj([tool_calls |-> EmptyArr])}]
    /\ out = Undef

NumCalls ==
    (IF IsArray(ai.tool_calls) THEN Len(ai.tool_calls.a) ELSE 0)
    + (IF IsArray(Get(ai.additional_kwargs, "tool_calls"))
       THEN Len(Get(ai.additional_kwargs, "tool_calls").a) ELSE 0)

AddCanonicalCall ==
    /\ pc = "build"
    /\ IsArray(ai.tool_calls)
    /\ NumCalls < MaxCalls
    /\ \E item \in CanonicalPool :
          ai' = [ai EXCEPT !.tool_calls = Arr(Append(@.a, item))]
    /\ UNCHANGED <<pc, msg, out>>

AddLegacyCall ==
    /\ pc = "build"
    /\ IsArray(Get(ai.additional_kwargs, "tool_calls"))
    /\ NumCalls < MaxCalls
    /\ \E item \in LegacyPool :
          ai' = [ai EXCEPT !.additional_kwargs =
                    Obj([tool_calls |-> Arr(Append(Get(@, "tool_calls").a, item))])]
    /\ UNCHANGED <<pc, msg, out>>

\* extractAIMessage, converter.ts 492-495
Normalize ==
    /\ pc = "build"
    /\ out' = normalizeToolCalls(ai.tool_calls, ai.additional_kwargs)
    /\ pc' = "normalized"
    /\ UNCHANGED <<msg, ai>>

NormNext == AddCanonicalCall \/ AddLegacyCall \/ Normalize

SpecNorm == NormInit /\ [][NormNext]_vars

-----------------------------------------------------------------------------
(* Claims about the tool-call normalizer, checked under SpecNorm *)

CanonicalItems == IF IsArray(ai.tool_calls) THEN ai.tool_calls.a ELSE <<>>

LegacyItems ==
    IF IsArray(Get(ai.additional_kwargs, "tool_calls"))
    THEN Get(ai.additional_kwargs, "tool_calls").a ELSE <<>>

NonEmptyString(v) == TypeofString(v) /\ v # EmptyStr

\* the canonical entries that name a tool
NamedCanonical ==
    {i \in 1..Len(CanonicalItems) :
        isRecord(CanonicalItems[i]) /\ NonEmptyString(Get(CanonicalItems[i], "name"))}

\* the legacy entries that name a tool
NamedLegacy ==
    {i \in 1..Len(LegacyItems) :
        /\ isRecord(LegacyItems[i]) /\ isRecord(Get(LegacyItems[i], "function"))
        /\ NonEmptyString(Get(Get(LegacyItems[i], "function"), "name"))}

\* the legacy entries that name a tool and carry their arguments as a string
StringArgsLegacy ==
    {i \in NamedLegacy : TypeofString(Get(Get(LegacyItems[i], "function"), "arguments"))}

\* the legacy entries that name a tool and whose arguments are a string or omitted
StringOrOmittedArgsLegacy ==
    {i \in NamedLegacy :
        \/ TypeofString(Get(Get(LegacyItems[i], "function"), "arguments"))
        \/ Get(Get(LegacyItems[i], "function"), "arguments") = Undef}

\* the position, among the emitted calls, of the call made from entry i of S
Rank(S, i) == Cardinality({j \in S : j <= i})

EmittedCalls == IF out = Undef THEN <<>> ELSE out.a

WellFormedCalls ==
    \A n \in 1..Len(EmittedCalls) :
        /\ NonEmptyString(Get(EmittedCalls[n], "name"))
        /\ isRecord(Get(EmittedCalls[n], "args"))

\* C10 as stated: every emitted call has a non-empty name and a mapping as
\* args, and a source entry (canonical or legacy) that names a tool and whose
\* arguments are omitted yields a call with the empty mapping as args.
C10_OmittedArgumentsYieldEmptyMapping ==
    pc = "normalized" =>
        /\ WellFormedCalls
        /\ IF NamedCanonical # {}
           THEN /\ Len(EmittedCalls) = Cardinality(NamedCanonical)
                /\ \A i \in NamedCanonical :
                      Get(CanonicalItems[i], "args") = Undef
                      => Get(EmittedCalls[Rank(NamedCanonical, i)], "args") = EmptyObj
           ELSE /\ Len(EmittedCalls) = Cardinality(StringOrOmittedArgsLegacy)
                /\ \A i \in StringOrOmittedArgsLegacy :
                      Get(Get(LegacyItems[i], "function"), "arguments") = Undef
                      => Get(EmittedCalls[Rank(StringOrOmittedArgsLegacy, i)], "args") = EmptyObj

\* C10 amended: every emitted call has a non-empty name and a mapping as
\* args; a canonical entry that names a tool always yields a call, with the
\* empty mapping as args when its args are omitted; a legacy entry yields a
\* call only when its function.arguments is a string, and is skipped when
\* the arguments are omitted.
C10_EmittedCallsWellFormed ==
    pc = "normalized" =>
        /\ WellFormedCalls
        /\ IF NamedCanonical # {}
           THEN /\ Len(EmittedCalls) = Cardinality(NamedCanonical)
                /\ \A i \in NamedCanonical :
                      Get(CanonicalItems[i], "args") = Undef
                      => Get(EmittedCalls[Rank(NamedCanonical, i)], "args") = EmptyObj
           ELSE Len(EmittedCalls) = Cardinality(StringArgsLegacy)

\* two canonical entries were normalized: the one without args to a call with
\* the empty mapping, the one with a JSON string as args to the parsed mapping
C10_Witness ==
    /\ pc = "normalized"
    /\ Len(EmittedCalls) = 2
    /\ \E i \in NamedCanonical :
          /\ Get(CanonicalItems[i], "args") = Undef
          /\ Get(EmittedCalls[Rank(NamedCanonical, i)], "args") = EmptyObj
    /\ \E i \in NamedCanonical :
          /\ TypeofString(Get(CanonicalItems[i], "args"))
          /\ Get(EmittedCalls[Rank(NamedCanonical, i)], "args") = ArgsValue

\* the calls each array yields, entries that are skipped left out
CanonicalCalls == parseToolCallsArray(ai.tool_calls)

LegacyCalls == parseAdditionalToolCalls(ai.additional_kwargs)

\* C11 as stated: the canonical calls alone are emitted unless the canonical
\* array is empty; the legacy calls are emitted only when the canonical array
\* is empty and the legacy array is not; the field is omitted when both are empty
C11_CanonicalUnlessArrayEmpty ==
    pc = "normalized" =>
        /\ CanonicalItems # <<>> => EmittedCalls = CanonicalCalls
        /\ (CanonicalItems = <<>> /\ LegacyItems # <<>>) => EmittedCalls = LegacyCalls
        /\ (CanonicalItems = <<>> /\ LegacyItems = <<>>) => out = Undef

\* C11 amended: the canonical calls alone are emitted whenever the canonical
\* array yields a call; the legacy calls are emitted only when the canonical
\* array yields none (absent, empty, or every entry skipped) and the legacy
\* array yields one; the field is omitted when neither yields a call
C11_CanonicalUnlessNoCall ==
    pc = "normalized" =>
        /\ CanonicalCalls # <<>> => out = Arr(CanonicalCalls)
        /\ (CanonicalCalls = <<>> /\ LegacyCalls # <<>>) => out = Arr(LegacyCalls)
        /\ (CanonicalCalls = <<>> /\ LegacyCalls = <<>>) => out = Undef

\* C11 witness: both arrays yield a call, and the canonical call alone is emitted
C11_Witness ==
    /\ pc = "normalized"
    /\ CanonicalCalls # <<>> /\ LegacyCalls # <<>>
    /\ CanonicalCalls # LegacyCalls
    /\ out = Arr(CanonicalCalls)

-----------------------------------------------------------------------------
(* Inputs: transport messages to reconstruct *)

\* the size of a message: its parts plus the toolMessages entries they carry
MaxReconSize == 3

ToolMessagesTag == Obj([format |-> W("langchain"), type |-> W("tool-messages")])

AIMessageTag == Obj([type |-> W("langchain_ai_message")])

FunctionResponseText ==
    Str(<<"[", "{", "\"", "functionResponse", "\"", ":", "{", "\"", "response", "\"", ":",
          "{", "\"", "output", "\"", ":", "\"", "42", "\"", "}", "}", "}", "]">>)

EntryPool ==
    { Obj([tool_call_id |-> W("call_1"), content |-> W("sunny")]),
      Obj([id |-> W("tm_2"), name |-> W("f"), content |-> FunctionResponseText,
           status |-> W("success")]),
      Obj([content |-> Obj([temp |-> Num(2)]), artifact |-> W("raw")]),
      EmptyObj,
      Null,
      W("sunny") }

CanonicalCall == Obj([name |-> W("f"), args |-> ArgsValue, id |-> W("call_1")])

ReconDataParts ==
    { \* tool-messages tier: an array to fill, and unusable payloads
      DataPart(Obj([toolMessages |-> EmptyArr]), ToolMessagesTag),
      DataPart(Obj([toolMessages |-> W("sunny")]), ToolMessagesTag),
      DataPart(Null, ToolMessagesTag),
      \* langchain_ai_message tier: usable and unusable payloads
      DataPart(Obj([content |-> W("answer"), id |-> W("ai_1"),
                    tool_calls |-> Arr(<<CanonicalCall>>)]), AIMessageTag),
      DataPart(Obj([content |-> W("second")]), AIMessageTag),
      DataPart(EmptyObj, AIMessageTag),
      DataPart(Null, AIMessageTag),
      DataPart(EmptyArr, AIMessageTag),
      DataPart(W("answer"), AIMessageTag),
      \* metadata that selects no tier
      DataPart(Obj([toolMessages |-> EmptyArr]), Obj([type |-> W("tool-messages")])),
      DataPart(Obj([toolMessages |-> EmptyArr]), Undef),
      DataPart(Obj([content |-> W("answer")]), W("langchain_ai_message")),
      \* the tool definitions a request carries next to its history
      DataPart(Obj([tools |-> Arr(<<weatherTool>>)]),
               Obj([type |-> W("tool-definitions"), format |-> W("langchain")])) }

hasToolMessagesArray(part) ==
    part.kind = "data" /\ IsArray(Get(part.data, "toolMessages"))

RECURSIVE NumEntries(_)
NumEntries(parts) ==
    IF parts = <<>> THEN 0
    ELSE (IF hasToolMessagesArray(Head(parts))
          THEN Len(Get(Head(parts).data, "toolMessages").a) ELSE 0)
         + NumEntries(Tail(parts))

ReconSize == Len(msg.parts) + NumEntries(msg.parts)

ReconInit ==
    /\ pc = "build"
    /\ \E role \in {"user", "agent", "system"} : msg = [NewMessage EXCEPT !.role = role]
    /\ ai = Undef
    /\ out = NoMessage

AddReconTextPart ==
    /\ pc = "build"
    /\ ReconSize < MaxReconSize
    /\ \E text \in {W("hello"), W("world")} :
          msg' = [msg EXCEPT !.parts = Append(@, TextPart(text))]
    /\ UNCHANGED <<pc, ai, out>>

AddReconDataPart ==
    /\ pc = "build"
    /\ ReconSize < MaxReconSize
    /\ \E part \in ReconDataParts : msg' = [msg EXCEPT !.parts = Append(@, part)]
    /\ UNCHANGED <<pc, ai, out>>

\* one more entry in the toolMessages array of the last part
AddToolMessageEntry ==
    /\ pc = "build"
    /\ msg.parts # <<>>
    /\ hasToolMessagesArray(msg.parts[Len(msg.parts)])
    /\ ReconSize < MaxReconSize
    /\ \E entry \in EntryPool :
          LET n == Len(msg.parts)
              p == msg.parts[n]
          IN  msg' = [msg EXCEPT !.parts[n] =
                         DataPart(Obj([toolMessages |->
                                          Arr(Append(Get(p.data, "toolMessages").a, entry))]),
                                  p.metadata)]
    /\ UNCHANGED <<pc, ai, out>>

\* a2aMessagesToLangChain, converter.ts 357
Reconstruct ==
    /\ pc = "build"
    /\ out' = a2aMessageToLangChain(msg)
    /\ pc' = "reconstructed"
    /\ UNCHANGED <<msg, ai>>

ReconNext == AddReconTextPart \/ AddReconDataPart \/ AddToolMessageEntry \/ Reconstruct

SpecRecon == ReconInit /\ [][ReconNext]_vars

-----------------------------------------------------------------------------
(* Claims about a2aMessageToLangChain, checked under SpecRecon *)

\* the part carries the tags of the tool-messages tier
ToolTagged(part) ==
    /\ part.kind = "data"
    /\ Get(part.metadata, "format") = W("langchain")
    /\ Get(part.metadata, "type") = W("tool-messages")

\* the part carries the tag of the langchain_ai_message tier
AITagged(part) ==
    /\ part.kind = "data"
    /\ Get(part.metadata, "type") = W("langchain_ai_message")

\* the payload of a tool-messages part yields a tool result: object data with a
\* non-empty toolMessages array whose first entry is an object
ToolUsable(part) ==
    /\ ToolTagged(part)
    /\ part.data.k = "object"
    /\ IsArray(Get(part.data, "toolMessages"))
    /\ Len(Get(part.data, "toolMessages").a) >= 1
    /\ Get(part.data, "toolMessages").a[1].k \in {"object", "array"}

\* the payload of a langchain_ai_message part yields an AI message: object data
AIUsable(part) == AITagged(part) /\ part.data.k = "object"

Reconstructed == pc = "reconstructed"

PartIndexes == 1..Len(msg.parts)

ToolUsableIndexes == {i \in PartIndexes : ToolUsable(msg.parts[i])}

AIUsableIndexes == {i \in PartIndexes : AIUsable(msg.parts[i])}

\* C2: the tool-messages tier wins wherever its part stands in the list; without
\* a usable tool-messages part the first usable langchain_ai_message part gives
\* the AI message; without either the plain-text fallback gives the message
C2_TierPriority ==
    Reconstructed =>
        /\ ToolUsableIndexes # {} => out.type = "tool"
        /\ (ToolUsableIndexes = {} /\ AIUsableIndexes # {}) =>
              out = aiMessageOfPart(msg.parts[Least(AIUsableIndexes)], msg)
        /\ (ToolUsableIndexes = {} /\ AIUsableIndexes = {}) =>
              out = plainTextMessage(msg, extractTextContent(msg.parts))

\* C2 witness: a usable langchain_ai_message part stands before a usable
\* tool-messages part, and a tool result is returned
C2_Witness ==
    /\ Reconstructed
    /\ \E i, j \in PartIndexes :
          i < j /\ AIUsable(msg.parts[i]) /\ ToolUsable(msg.parts[j])
    /\ out.type = "tool"

\* entries that may follow entry 0 of a toolMessages array
AltTails == {<<>>} \cup {<<e>> : e \in EntryPool} \cup {<<e, f>> : e, f \in EntryPool}

\* the message with the toolMessages entries after entry 0 of part i replaced by tail
WithTail(message, i, tail) ==
    [message EXCEPT !.parts[i] =
        DataPart(Obj([toolMessages |->
                         Arr(<<Get(message.parts[i].data, "toolMessages").a[1]>> \o tail)]),
                 message.parts[i].metadata)]

ToolArrayIndexes ==
    {i \in PartIndexes :
        /\ ToolTagged(msg.parts[i])
        /\ hasToolMessagesArray(msg.parts[i])
        /\ Len(Get(msg.parts[i].data, "toolMessages").a) >= 1}

\* C3: the tool result is the one built from entry 0 of the array, and whatever
\* entries follow entry 0 (none, others, more, fewer) the result is the same
C3_OnlyEntryZero ==
    Reconstructed =>
        /\ ToolUsableIndexes # {} =>
              out = constructToolMessageFromEntry(
                        Get(msg.parts[Least(ToolUsableIndexes)].data, "toolMessages").a[1],
                        msg.messageId)
        /\ \A i \in ToolArrayIndexes : \A tail \in AltTails :
              a2aMessageToLangChain(WithTail(msg, i, tail)) = out

\* C3 witness: the array has a second entry that would give another message,
\* and the message returned is the one of entry 0
C3_Witness ==
    /\ Reconstructed
    /\ \E i \in ToolUsableIndexes :
          LET entries == Get(msg.parts[i].data, "toolMessages").a
          IN  /\ Len(entries) >= 2
              /\ entries[2].k = "object"
              /\ constructToolMessageFromEntry(entries[2], msg.messageId) # out
              /\ constructToolMessageFromEntry(entries[1], msg.messageId) = out

\* the parts without the one at index j
RemoveAt(parts, j) == SubSeq(parts, 1, j - 1) \o SubSeq(parts, j + 1, Len(parts))

WithoutPart(message, j) == [message EXCEPT !.parts = RemoveAt(message.parts, j)]

\* C4 as stated: a data part that comes after a part with the same tags never
\* influences the result, whatever the payload of the earlier part
C4_LaterTaggedPartIgnored ==
    Reconstructed =>
        \A i, j \in PartIndexes :
            (/\ i < j
             /\ \/ ToolTagged(msg.parts[i]) /\ ToolTagged(msg.parts[j])
                \/ AITagged(msg.parts[i]) /\ AITagged(msg.parts[j]))
            => a2aMessageToLangChain(WithoutPart(msg, j)) = out

\* C4 amended: a data part that comes after a tagged part with a usable payload
\* never influences the result, and a tagged part with an unusable payload never
\* does either: it is skipped and the scan goes on with the parts after it
C4_FirstUsablePartDecides ==
    Reconstructed =>
        /\ \A i, j \in PartIndexes :
              (/\ i < j
               /\ \/ ToolUsable(msg.parts[i]) /\ ToolTagged(msg.parts[j])
                  \/ AIUsable(msg.parts[i]) /\ AITagged(msg.parts[j]))
              => a2aMessageToLangChain(WithoutPart(msg, j)) = out
        /\ \A j \in PartIndexes :
              (\/ ToolTagged(msg.parts[j]) /\ ~ToolUsable(msg.parts[j])
               \/ AITagged(msg.parts[j]) /\ ~AIUsable(msg.parts[j]))
              => a2aMessageToLangChain(WithoutPart(msg, j)) = out

\* C4 witness: the first tagged part of a tier is unusable, a later part of the
\* same tier is usable, and the result is the one built from the later part
C4_Witness ==
    /\ Reconstructed
    /\ \E i, j \in PartIndexes :
          /\ i < j
          /\ AITagged(msg.parts[i]) /\ ~AIUsable(msg.parts[i])
          /\ \A h \in 1..(j - 1) : ~AIUsable(msg.parts[h]) /\ ~ToolUsable(msg.parts[h])
          /\ AIUsable(msg.parts[j])
          /\ out = aiMessageOfPart(msg.parts[j], msg)
          /\ a2aMessageToLangChain(WithoutPart(msg, j)) # out

-----------------------------------------------------------------------------
(* Inputs: AI messages to serialize and reconstruct *)

\* the number of tool calls of an AI message, well-formed and malformed together
MaxRTCalls == 2

ImageBlock == Obj([type |-> W("image_url"), image_url |-> W("u")])

RTContents ==
    { EmptyStr,
      W("answer"),
      Arr(<<Obj([type |-> W("text"), text |-> W("answer")])>>),
      \* blank text, blocks of several kinds, no text block at all
      Str(<<" ", "\n">>),
      Arr(<<Obj([type |-> W("text"), text |-> W("hello")]), ImageBlock,
            Obj([type |-> W("text"), text |-> W("world")])>>),
      Arr(<<ImageBlock>>) }

\* the identifiers the executor hands to the serializer: a fresh message id,
\* the task id and the context id of the request
RTIdentifiers ==
    { [messageId |-> W("m1"), taskId |-> Undef, contextId |-> Undef],
      [messageId |-> W("m2"), taskId |-> W("t1"), contextId |-> W("c1")],
      [messageId |-> W("m1"), taskId |-> W("t1"), contextId |-> Undef] }

\* tool calls as the chat model parsed them: a non-empty name, a mapping as args
RTCalls ==
    { ObjOf([name |-> W("get_weather"), args |-> ArgsValue, id |-> W("call_1"),
             type |-> W("tool_call")]),
      ObjOf([name |-> W("f"), args |-> EmptyObj, id |-> W("call_2"),
             type |-> W("tool_call")]),
      ObjOf([name |-> W("f"), args |-> ArgsValue, type |-> W("tool_call")]) }

\* the provider's raw form of a parsed tool call, as kept in additional_kwargs
RawOf(call) ==
    ObjOf([id |-> Get(call, "id"),
           type |-> W("function"),
           function |-> Obj([name |-> Get(call, "name"),
                             arguments |-> Str(JSONStringify(Get(call, "args")))])])

\* a raw tool call whose arguments the chat model left unfinished
MalformedArguments == Str(<<"{", "\"", "a", "\"", ":">>)

MalformedRawCall ==
    Obj([id |-> W("call_9"),
         type |-> W("function"),
         function |-> Obj([name |-> W("f"), arguments |-> MalformedArguments])])

MalformedInvalidCall ==
    Obj([name |-> W("f"), args |-> MalformedArguments, id |-> W("call_9"),
         error |-> W("Malformed"), type |-> W("invalid_tool_call")])

\* additional_kwargs with one more raw tool call
WithRawCall(additional, raw) ==
    Put(additional.o, "tool_calls",
        IF IsArray(Get(additional, "tool_calls"))
        THEN Arr(Append(Get(additional, "tool_calls").a, raw))
        ELSE Arr(<<raw>>))

NumRTCalls == Len(ai.tool_calls.a) + Len(ai.invalid_tool_calls.a)

RTInit ==
    /\ pc = "build"
    /\ \E content \in RTContents, id \in {Undef, W("run_1")},
          response_metadata \in {EmptyObj, Obj([finish_reason |-> W("stop")])} :
          ai = AIMessage([content |-> content, id |-> id,
                          tool_calls |-> EmptyArr, invalid_tool_calls |-> EmptyArr,
                          additional_kwargs |-> EmptyObj,
                          response_metadata |-> response_metadata,
                          usage_metadata |-> Undef])
    /\ \E ids \in RTIdentifiers :
          msg = [NewMessage EXCEPT !.messageId = ids.messageId, !.taskId = ids.taskId,
                                   !.contextId = ids.contextId]
    /\ out = NoMessage

\* the chat model answers with one more tool call; the provider may keep its raw form
AddToolCall ==
    /\ pc = "build"
    /\ NumRTCalls < MaxRTCalls
    /\ \E call \in RTCalls, keepRaw \in BOOLEAN :
          ai' = [ai EXCEPT !.tool_calls = Arr(Append(@.a, call)),
                           !.additional_kwargs =
                               IF keepRaw THEN Obj(WithRawCall(@, RawOf(call))) ELSE @]
    /\ UNCHANGED <<pc, msg, out>>

\* the chat model answers with a tool call whose arguments do not parse: it is
\* kept raw and as an invalid tool call, never as a tool call
AddMalformedCall ==
    /\ pc = "build"
    /\ NumRTCalls < MaxRTCalls
    /\ ai' = [ai EXCEPT !.invalid_tool_calls = Arr(Append(@.a, MalformedInvalidCall)),
                        !.additional_kwargs = Obj(WithRawCall(@, MalformedRawCall))]
    /\ UNCHANGED <<pc, msg, out>>

\* langChainAIMessageToA2A(response, id, taskId, contextId)
Serialize ==
    /\ pc = "build"
    /\ msg' = langChainAIMessageToA2A(ai, msg.messageId, msg.taskId, msg.contextId)
    /\ pc' = "serialized"
    /\ UNCHANGED <<ai, out>>

\* a2aMessageToLangChain on the serialized message
ReconstructSerialized ==
    /\ pc = "serialized"
    /\ out' = a2aMessageToLangChain(msg)
    /\ pc' = "reconstructed"
    /\ UNCHANGED <<msg, ai>>

RTNext == AddToolCall \/ AddMalformedCall \/ Serialize \/ ReconstructSerialized

SpecRT == RTInit /\ [][RTNext]_vars

-----------------------------------------------------------------------------
(* Claims about the round trip, checked under SpecRT *)

\* name, args and id of each tool call of an AI message, in order
CallsOf(tool_calls) ==
    IF IsArray(tool_calls)
    THEN [i \in 1..Len(tool_calls.a) |->
             [name |-> Get(tool_calls.a[i], "name"),
              args |-> Get(tool_calls.a[i], "args"),
              id |-> Get(tool_calls.a[i], "id")]]
    ELSE <<>>

\* C1: the message reconstructed from the serialized AI message is an AI
\* message with the content, the tool calls (name, args, id of each, in order)
\* and the response metadata of the original
C1_RoundTrip ==
    pc = "reconstructed" =>
        /\ out.type = "ai"
        /\ out.content = ai.content
        /\ CallsOf(out.tool_calls) = CallsOf(ai.tool_calls)
        /\ out.response_metadata = ai.response_metadata

-----------------------------------------------------------------------------
(* Inputs: values handed to coerceArgs *)

\* the number of times a value is wrapped or written as JSON text
MaxCoerceDepth == 2

CoerceAtoms ==
    { Undef, Null, Bool(TRUE), Num(0), Num(1), W("x"), EmptyStr,
      Str(<<"not", " ", "json">>), Str(<<"a", "\"", "\n">>), Str(<<"{">>),
      EmptyObj, EmptyArr }

\* ai.value is the value handed to coerceArgs; when ai.text holds it is the
\* JSON text of ai.of, otherwise ai.of is ai.value itself
CoerceInit ==
    /\ pc = "build"
    /\ msg = NewMessage
    /\ \E v \in CoerceAtoms : ai = [value |-> v, of |-> v, text |-> FALSE, depth |-> 0]
    /\ out = Undef

\* { key: value }, for a value JSON can carry
WrapInMapping ==
    /\ pc = "build"
    /\ ai.depth < MaxCoerceDepth
    /\ ai.value # Undef
    /\ \E key \in {"a", "b"} :
          ai' = [value |-> Obj(Put(<<>>, key, ai.value)), of |-> Obj(Put(<<>>, key, ai.value)),
                 text |-> FALSE, depth |-> ai.depth + 1]
    /\ UNCHANGED <<pc, msg, out>>

\* one more member in a mapping
AddMember ==
    /\ pc = "build"
    /\ ai.depth < MaxCoerceDepth
    /\ isRecord(ai.value)
    /\ \E key \in {"a", "b"}, v \in {Num(2), W("x"), Null} :
          /\ key \notin DOMAIN ai.value.o
          /\ ai' = [value |-> Obj(Put(ai.value.o, key, v)), of |-> Obj(Put(ai.value.o, key, v)),
                    text |-> FALSE, depth |-> ai.depth + 1]
    /\ UNCHANGED <<pc, msg, out>>

\* [value], for a value JSON can carry
WrapInArray ==
    /\ pc = "build"
    /\ ai.depth < MaxCoerceDepth
    /\ ai.value # Undef
    /\ ai' = [value |-> Arr(<<ai.value>>), of |-> Arr(<<ai.value>>),
              text |-> FALSE, depth |-> ai.depth + 1]
    /\ UNCHANGED <<pc, msg, out>>

\* JSON.stringify(value)
WriteAsText ==
    /\ pc = "build"
    /\ ai.depth < MaxCoerceDepth
    /\ ai.value # Undef
    /\ ai' = [value |-> Str(JSONStringify(ai.value)), of |-> ai.value,
              text |-> TRUE, depth |-> ai.depth + 1]
    /\ UNCHANGED <<pc, msg, out>>

\* coerceArgs(value), as parseToolCallsArray and parseAdditionalToolCalls call it
Coerce ==
    /\ pc = "build"
    /\ out' = coerceArgs(ai.value)
    /\ pc' = "coerced"
    /\ UNCHANGED <<msg, ai>>

CoerceNext == WrapInMapping \/ AddMember \/ WrapInArray \/ WriteAsText \/ Coerce

SpecCoerce == CoerceInit /\ [][CoerceNext]_vars

-----------------------------------------------------------------------------
(* Claims about coerceArgs, checked under SpecCoerce *)

\* C12: the JSON text of a mapping is coerced back to that mapping; a mapping
\* is returned unchanged; text that is not JSON, text of a non-mapping and
\* every other value are coerced to the empty mapping
C12_CoerceArgs ==
    pc = "coerced" =>
        /\ (ai.text /\ isRecord(ai.of)) => out = ai.of
        /\ (ai.text /\ ~isRecord(ai.of)) => out = EmptyObj
        /\ isRecord(ai.value) => out = ai.value
        /\ (TypeofString(ai.value) /\ ~JSONParse(ai.value.s).ok) => out = EmptyObj
        /\ (~TypeofString(ai.value) /\ ~isRecord(ai.value)) => out = EmptyObj
        /\ isRecord(out)

\* C12 witness: the JSON text of a mapping with a member was coerced back to it
C12_Witness ==
    /\ pc = "coerced"
    /\ ai.text /\ isRecord(ai.of) /\ ai.of # EmptyObj
    /\ TypeofString(ai.value)
    /\ out = ai.of

-----------------------------------------------------------------------------
(* Inputs: toolMessages entries to reconstruct *)

\* the number of records in the JSON content of an entry
MaxRecords == 2

FunctionResponse(response) == Obj([functionResponse |-> ObjOf([response |-> response])])

\* the items of a parsed content: records with and without a functionResponse
RecordPool ==
    { FunctionResponse(W("done")),
      FunctionResponse(Obj([output |-> W("42")])),
      FunctionResponse(Obj([error |-> W("boom")])),
      FunctionResponse(Obj([output |-> W("42"), error |-> W("boom")])),
      FunctionResponse(Obj([temp |-> Num(2)])),
      FunctionResponse(Obj([output |-> Num(1), error |-> W("boom")])),
      FunctionResponse(Num(0)),
      FunctionResponse(EmptyStr),
      FunctionResponse(Undef),
      Obj([functionResponse |-> W("done")]),
      Obj([other |-> Num(1)]),
      Null }

\* content that is not the JSON text of records: plain text, padded text,
\* blank text, broken JSON, and values that are not strings
RawContents ==
    { Str(<<"plain", " ", "unstructured", " ", "result">>),
      Str(<<" ", "plain", "\n">>),
      Str(<<"{", "\"", "a", "\"", ":">>),
      Str(<<" ", "\n">>),
      EmptyStr,
      W("null"),
      Obj([temp |-> Num(2)]),
      Arr(<<Num(1)>>),
      Num(1),
      Bool(FALSE),
      Null }

Padding == {<<>>, <<" ", "\n">>}

\* ai.entry is the entry; ai.records are the records its content is the JSON
\* text of, when ai.shape is "array" or "single"
EntryInit ==
    /\ pc = "build"
    /\ \E messageId \in {W("m1"), W("m2")} : msg = [NewMessage EXCEPT !.messageId = messageId]
    /\ \E tool_call_id \in {Undef, W("call_1"), EmptyStr, Num(1)},
          id \in {Undef, W("tm_2"), EmptyStr},
          artifact \in {Undef, W("raw")} :
          ai = [entry |-> ObjOf([tool_call_id |-> tool_call_id, id |-> id, artifact |-> artifact]),
                records |-> <<>>, shape |-> "absent"]
    /\ out = NoMessage

AddRecord ==
    /\ pc = "build"
    /\ ai.shape = "absent"
    /\ Len(ai.records) < MaxRecords
    /\ \E record \in RecordPool : ai' = [ai EXCEPT !.records = Append(@, record)]
    /\ UNCHANGED <<pc, msg, out>>

\* content: JSON.stringify(records), possibly with whitespace around it
WriteArrayContent ==
    /\ pc = "build"
    /\ ai.shape = "absent"
    /\ \E pad \in Padding :
          ai' = [ai EXCEPT !.shape = "array",
                           !.entry = Obj(Put(@.o, "content",
                               Str(pad \o JSONStringify(Arr(ai.records)) \o pad)))]
    /\ UNCHANGED <<pc, msg, out>>

\* content: JSON.stringify(record), a single record that is not in an array
WriteSingleContent ==
    /\ pc = "build"
    /\ ai.shape = "absent"
    /\ Len(ai.records) = 1
    /\ isRecord(ai.records[1])
    /\ ai' = [ai EXCEPT !.shape = "single",
                        !.entry = Obj(Put(@.o, "content", Str(JSONStringify(ai.records[1]))))]
    /\ UNCHANGED <<pc, msg, out>>

WriteRawContent ==
    /\ pc = "build"
    /\ ai.shape = "absent"
    /\ ai.records = <<>>
    /\ \E content \in RawContents :
          ai' = [ai EXCEPT !.shape = "raw", !.entry = Obj(Put(@.o, "content", content))]
    /\ UNCHANGED <<pc, msg, out>>

\* constructToolMessageFromEntry(entry, message.messageId), converter.ts 441-444
ReconstructEntry ==
    /\ pc = "build"
    /\ out' = constructToolMessageFromEntry(ai.entry, msg.messageId)
    /\ pc' = "rebuilt"
    /\ UNCHANGED <<msg, ai>>

EntryNext ==
    AddRecord \/ WriteArrayContent \/ WriteSingleContent \/ WriteRawContent \/ ReconstructEntry

SpecEntry == EntryInit /\ [][EntryNext]_vars

-----------------------------------------------------------------------------
(* Claims about the reconstruction of a tool result, checked under SpecEntry *)

Rebuilt == pc = "rebuilt"

Content == Get(ai.entry, "content")

\* the content is a string that parses as JSON, and what it parses to
JsonContent == ai.shape \in {"array", "single"} \/ Content = W("null")

ParsedValue ==
    IF ai.shape = "array" THEN Arr(ai.records)
    ELSE IF ai.shape = "single" THEN ai.records[1]
    ELSE Null

ParsedItems == IF IsArray(ParsedValue) THEN ParsedValue.a ELSE <<ParsedValue>>

\* the response of a record that has a functionResponse, undefined otherwise
ResponseOf(item) == Get(Get(item, "functionResponse"), "response")

\* the text of a response by the priority: the string itself, its output
\* string, its error string, its JSON text
TextByPriority(response) ==
    IF TypeofString(response) THEN response
    ELSE IF TypeofString(Get(response, "output")) THEN Get(response, "output")
    ELSE IF TypeofString(Get(response, "error")) THEN Get(response, "error")
    ELSE Str(JSONStringify(response))

\* the texts of the records that carry a response, in record order; the
\* empty texts among them are kept or left out
RECURSIVE ResponseTexts(_, _)
ResponseTexts(items, keepEmpty) ==
    IF items = <<>> THEN <<>>
    ELSE IF ResponseOf(Head(items)) \in {Undef, Null} THEN ResponseTexts(Tail(items), keepEmpty)
    ELSE IF ~keepEmpty /\ TextByPriority(ResponseOf(Head(items))) = EmptyStr
    THEN ResponseTexts(Tail(items), keepEmpty)
    ELSE <<TextByPriority(ResponseOf(Head(items))).s>> \o ResponseTexts(Tail(items), keepEmpty)

\* the text of a tool result whose records gave these texts
TextOf(texts) ==
    IF texts = <<>> THEN Str(Trim(Content.s)) ELSE Str(Join(texts, <<"\n", "\n">>))

\* C13 as stated: every record that carries a response contributes its text by
\* the priority, in record order; the trimmed content is the text when no
\* record contributes; the artifact is the parsed value
C13_EveryResponseContributes ==
    (Rebuilt /\ JsonContent) =>
        /\ out.content = TextOf(ResponseTexts(ParsedItems, TRUE))
        /\ parseToolMessageContent(Content).artifact = ParsedValue

\* C13 amended: every record that carries a response whose text by the
\* priority is not empty contributes that text, in record order; the trimmed
\* content is the text when no record contributes; the artifact of the parsed
\* content is the parsed value, and it is the artifact of the tool result
\* unless the parsed value is null
C13_NonEmptyResponsesContribute ==
    (Rebuilt /\ JsonContent) =>
        /\ out.content = TextOf(ResponseTexts(ParsedItems, FALSE))
        /\ parseToolMessageContent(Content).artifact = ParsedValue
        /\ ParsedValue # Null => out.artifact = ParsedValue

\* C13 witness: two records gave their texts in order, the first by its
\* output string although it has an error string too
C13_Witness ==
    /\ Rebuilt
    /\ ai.shape = "array"
    /\ Len(ai.records) = 2
    /\ ai.records[1] = FunctionResponse(Obj([output |-> W("42"), error |-> W("boom")]))
    /\ ai.records[2] = FunctionResponse(Obj([temp |-> Num(2)]))
    /\ out.content = Str(<<"42", "\n", "\n", "{", "\"", "temp", "\"", ":", "2", "}">>)
    /\ out.artifact = Arr(ai.records)

\* C14: string content that is not blank and is not JSON gives a tool result
\* whose text and whose artifact are both the trimmed content
C14_RawTextFallback ==
    (/\ Rebuilt
     /\ TypeofString(Content)
     /\ Trim(Content.s) # <<>>
     /\ ~JSONParse(Trim(Content.s)).ok)
    => /\ out.type = "tool"
       /\ out.content = Str(Trim(Content.s))
       /\ out.artifact = Str(Trim(Content.s))

\* C15 as stated: content that is not a string is the artifact of the tool
\* result, and the tool result has no text derived from it
C15_NonStringContentIsArtifact ==
    (Rebuilt /\ ~TypeofString(Content)) =>
        /\ out.artifact = Content
        /\ out.content = EmptyStr

\* C15 amended: for content that is not a string the parse step derives no
\* text and keeps the content as artifact; the artifact of the tool result is
\* the content, or the entry's artifact field when the content is null or
\* absent; the text of the tool result is the JSON text of the content, of ""
\* when the content is null or absent
C15_NonStringContentKept ==
    (Rebuilt /\ ~TypeofString(Content)) =>
        /\ parseToolMessageContent(Content) = [outputs |-> <<>>, artifact |-> Content]
        /\ out.artifact = IF Content \in {Undef, Null} THEN Get(ai.entry, "artifact") ELSE Content
        /\ out.content = IF Content \in {Undef, Null} THEN Str(<<"\"", "\"">>)
                         ELSE Str(JSONStringify(Content))

\* C15 witness: a mapping as content is the artifact, its JSON text the text
C15_Witness ==
    /\ Rebuilt
    /\ Content = Obj([temp |-> Num(2)])
    /\ out.artifact = Content
    /\ out.content = Str(<<"{", "\"", "temp", "\"", ":", "2", "}">>)

\* the transport message id handed over as fallback is a non-empty string
FallbackId == msg.messageId

-----------------------------------------------------------------------------
\* Claims about the `count` tag of a data part, checked under SpecRecon

\* values a sender may declare as count: numbers that are or are not the
\* length of the array, and a value that is no number
CountValues == {Num(0), Num(1), Num(2), W("1")}

\* the data parts whose metadata is a mapping
TaggedIndexes ==
    {i \in PartIndexes : msg.parts[i].kind = "data" /\ msg.parts[i].metadata.k = "object"}

\* the message with `count: c` written into the metadata of part i
WithCount(message, i, c) ==
    [message EXCEPT !.parts[i].metadata = Obj(Put(@.o, "count", c))]

\* C17: a message and the same message with a count declared on one of its
\* data parts reconstruct to the same message and yield the same tool list
C17_CountIsAdvisory ==
    \A i \in TaggedIndexes : \A c \in CountValues :
        /\ a2aMessageToLangChain(WithCount(msg, i, c)) = a2aMessageToLangChain(msg)
        /\ extractToolsFromMessage(WithCount(msg, i, c)) = extractToolsFromMessage(msg)

\* C17 witness: a tool result was reconstructed from an array of two entries,
\* and the same message declaring a count of 1 reconstructs to it as well
C17_Witness ==
    /\ pc = "reconstructed"
    /\ out.type = "tool"
    /\ 1 \in TaggedIndexes
    /\ hasToolMessagesArray(msg.parts[1])
    /\ Len(Get(msg.parts[1].data, "toolMessages").a) = 2
    /\ a2aMessageToLangChain(WithCount(msg, 1, Num(1))) = out

-----------------------------------------------------------------------------
\* Claims about the serialized AI message, checked under SpecRT

\* the content of the AI message as one text (converter.ts 894-897)
Flattened == extractContentText(ai.content)

BlankContent == Trim(Flattened.s) = <<>>

\* C18: an AI message with blank content and no tool calls is serialized to a
\* message whose only part is the placeholder text part
C18_EmptyMessageDefault ==
    (pc = "serialized" /\ BlankContent /\ ai.tool_calls = EmptyArr) =>
        msg.parts = <<TextPart(NoContentPlaceholder)>>

\* the AI message in the data part of a serialized message
CarriesAIMessage(part, aiMessage) ==
    /\ part.kind = "data"
    /\ part.metadata.k = "object"
    /\ Get(part.metadata, "type") = W("langchain_ai_message")
    /\ Get(part.data, "content") = aiMessage.content
    /\ Get(part.data, "id") = aiMessage.id
    /\ Get(part.data, "tool_calls") = aiMessage.tool_calls
    /\ Get(part.data, "additional_kwargs") = aiMessage.additional_kwargs
    /\ Get(part.data, "response_metadata") = aiMessage.response_metadata

AITaggedParts(parts) ==
    {i \in 1..Len(parts) :
        /\ parts[i].kind = "data"
        /\ parts[i].metadata.k = "object"
        /\ Get(parts[i].metadata, "type") = W("langchain_ai_message")}

TextParts(parts) == {i \in 1..Len(parts) : parts[i].kind = "text"}

\* what the serializer returned for the AI message and the identifiers
SerializedFrom(message, aiMessage, ids) ==
    /\ message.role = "agent"
    /\ message.messageId = ids.messageId
    /\ message.taskId = ids.taskId
    /\ message.contextId = ids.contextId
    /\ Cardinality(AITaggedParts(message.parts)) = 1
    /\ \A i \in AITaggedParts(message.parts) :
          /\ CarriesAIMessage(message.parts[i], aiMessage)
          /\ \A j \in TextParts(message.parts) : j < i
    /\ TextParts(message.parts) # {} => Trim(extractContentText(aiMessage.content).s) # <<>>

\* C19: the call of the serializer returns a message of role agent with the
\* identifiers it was given, exactly one data part tagged langchain_ai_message
\* that carries content, id, tool_calls, additional_kwargs and
\* response_metadata of the AI message, and a text part only if the flattened
\* content is not blank, placed before the data part
C19_SerializedMessage ==
    [][(pc = "build" /\ pc' = "serialized") => SerializedFrom(msg', ai, msg)]_vars

\* C19 witness: an AI message with two text blocks and an image block and a
\* tool call was serialized to a text part followed by the data part
C19_Witness ==
    /\ pc = "serialized"
    /\ IsArray(ai.content) /\ Len(ai.content.a) = 3
    /\ Len(ai.tool_calls.a) = 1
    /\ Len(msg.parts) = 2
    /\ msg.parts[1] = TextPart(Str(<<"hello", "\n", "world">>))
    /\ CarriesAIMessage(msg.parts[2], ai)
    /\ msg.taskId = W("t1")

-----------------------------------------------------------------------------
\* Claims about the text of a transport message, checked under SpecRecon

IsTextPart(part) == part.kind = "text"

\* the text parts of the message, in their order
TextPartsInOrder == SelectSeq(msg.parts, IsTextPart)

\* their texts with a newline between two neighbours, "" when there is none
JoinedText ==
    IF TextPartsInOrder = <<>> THEN EmptyStr
    ELSE Str(Join([i \in 1..Len(TextPartsInOrder) |-> TextPartsInOrder[i].text.s], <<"\n">>))

\* no data part of the message converts to a tool result or an AI message
PlainText == extractToolMessage(msg) = NoMessage /\ extractAIMessage(msg) = NoMessage

\* C20: the extracted text of a message is a string, the texts of its text
\* parts in order joined with a newline and nothing of its other parts, the
\* empty string when it has no text part; it is the content of the message
\* reconstructed from plain text
C20_TextExtraction ==
    /\ extractTextContent(msg.parts).k = "string"
    /\ extractTextContent(msg.parts) = JoinedText
    /\ (pc = "reconstructed" /\ PlainText) => out.content = JoinedText

\* C20 witness: a message with a data part between two text parts was
\* reconstructed from the two texts
C20_Witness ==
    /\ pc = "reconstructed"
    /\ Len(msg.parts) = 3
    /\ msg.parts[1] = TextPart(W("hello"))
    /\ msg.parts[2].kind = "data"
    /\ msg.parts[3] = TextPart(W("world"))
    /\ out.content = Str(<<"hello", "\n", "world">>)

-----------------------------------------------------------------------------
\* Claims about the fallback and the totality of reconstruction, checked
\* under SpecRecon

NoTierUsable == ToolUsableIndexes = {} /\ AIUsableIndexes = {}

\* C21: without a data part that yields a tool result or an AI message the
\* reconstructed message is a Human message for role user, an AI message for
\* role agent and a Human message for any other role; its content is the
\* extracted text and its id the id of the transport message
C21_PlainTextFallback ==
    (Reconstructed /\ NoTierUsable) =>
        /\ out.type = (IF msg.role = "agent" THEN "ai" ELSE "human")
        /\ out.content = JoinedText
        /\ out.id = msg.messageId

\* C21 witness: a message of role system with one text part became a Human
\* message with that text
C21_Witness ==
    /\ Reconstructed
    /\ msg.role = "system"
    /\ msg.parts = <<TextPart(W("hello"))>>
    /\ out = HumanMessage(W("hello"), msg.messageId)

\* a second message of the history handed to a2aMessagesToLangChain
FollowUp == [NewMessage EXCEPT !.messageId = W("m2"), !.parts = <<TextPart(W("world"))>>]

\* C22: every transport message is reconstructed to one Human, AI or tool
\* message: the tool result when a part of that tier is usable, else the AI
\* message when a part of that tier is usable, else the plain text; a list of
\* messages is reconstructed message by message, in order
C22_TotalAndFailOpen ==
    /\ a2aMessageToLangChain(msg).type \in {"human", "ai", "tool"}
    /\ a2aMessageToLangChain(msg).type =
          (IF ToolUsableIndexes # {} THEN "tool"
           ELSE IF AIUsableIndexes # {} \/ msg.role = "agent" THEN "ai"
           ELSE "human")
    /\ Reconstructed => out = a2aMessageToLangChain(msg)
    /\ a2aMessagesToLangChain(<<msg, FollowUp>>)
          = <<a2aMessageToLangChain(msg), HumanMessage(W("world"), W("m2"))>>
    /\ a2aMessagesToLangChain(<<>>) = <<>>

\* C22 witness: a message whose data parts carry both tags with payloads that
\* are no mapping, and no usable metadata, fell through to the plain text
C22_Witness ==
    /\ Reconstructed
    /\ \E i, j, k \in PartIndexes :
          /\ ToolTagged(msg.parts[i]) /\ msg.parts[i].data = Null
          /\ AITagged(msg.parts[j]) /\ msg.parts[j].data.k \in {"array", "string"}
          /\ msg.parts[k].kind = "data" /\ msg.parts[k].metadata.k # "object"
    /\ out.type = "human"
    /\ out.content = EmptyStr

-----------------------------------------------------------------------------
(* Inputs: payloads of a langchain_ai_message data part *)

\* the number of fields the payload carries
MaxPayloadFields == 2

\* values a stored payload may carry in each field read by extractAIMessage
PayloadValues ==
    [content |-> { Null, EmptyStr, W("answer"),
                   Arr(<<Obj([type |-> W("text"), text |-> W("answer")])>>), EmptyArr,
                   Obj([temp |-> Num(2)]), Num(1), Bool(FALSE) },
     id |-> { W("ai_1"), EmptyStr, Num(1) },
     tool_calls |-> { EmptyArr, Arr(<<CanonicalCall>>), Arr(<<Null>>) },
     invalid_tool_calls |-> { EmptyArr, Arr(<<MalformedInvalidCall>>), Arr(<<Null>>), W("f") },
     response_metadata |-> { EmptyObj, Obj([finish_reason |-> W("stop")]), W("stop") },
     usage_metadata |-> { EmptyObj, Obj([total_tokens |-> Num(4)]), Null }]

\* a message with text parts and one langchain_ai_message part, its payload empty
PayloadInit ==
    /\ pc = "build"
    /\ \E texts \in {<<>>, <<TextPart(W("hello"))>>, <<TextPart(W("hello")), TextPart(W("world"))>>} :
          msg = [NewMessage EXCEPT !.parts = Append(texts, DataPart(EmptyObj, AIMessageTag))]
    /\ ai = Undef
    /\ out = NoMessage

\* the payload of the message: the data of its last part
Payload == msg.parts[Len(msg.parts)].data

\* one more field in the payload
SetPayloadField ==
    /\ pc = "build"
    /\ Cardinality(DOMAIN Payload.o) < MaxPayloadFields
    /\ \E field \in (DOMAIN PayloadValues) \ (DOMAIN Payload.o) :
          \E v \in PayloadValues[field] :
             msg' = [msg EXCEPT !.parts[Len(msg.parts)].data = Obj(Put(Payload.o, field, v))]
    /\ UNCHANGED <<pc, ai, out>>

PayloadNext == SetPayloadField \/ Reconstruct

SpecPayload == PayloadInit /\ [][PayloadNext]_vars

-----------------------------------------------------------------------------
(* Claims about the reconstructed AI message, checked under SpecPayload *)

PayloadContent == Get(Payload, "content")

\* C23 as stated: content that is a string or an array is kept, content that
\* is a mapping or of any other type becomes a string, absent or null content
\* becomes the extracted text of the message
C23_ContentStringified ==
    Reconstructed =>
        /\ out.type = "ai"
        /\ PayloadContent.k \in {"string", "array"} => out.content = PayloadContent
        /\ PayloadContent.k \in {"object", "number", "boolean"} => out.content.k = "string"
        /\ PayloadContent.k \in {"undefined", "null"} => out.content = JoinedText

\* C23 amended: content that is a string, an array or a mapping is kept
\* unchanged, a number or a boolean becomes its String() text, absent or null
\* content becomes the extracted text of the message
C23_ContentNormalized ==
    Reconstructed =>
        /\ out.type = "ai"
        /\ PayloadContent.k \in {"string", "array", "object"} => out.content = PayloadContent
        /\ PayloadContent = Num(1) => out.content = W("1")
        /\ PayloadContent = Bool(FALSE) => out.content = W("false")
        /\ PayloadContent.k \in {"number", "boolean"} => out.content.k = "string"
        /\ PayloadContent.k \in {"undefined", "null"} => out.content = JoinedText

\* C23 witness: a payload without content, in a message with two text parts,
\* was reconstructed with the two texts as content
C23_Witness ==
    /\ Reconstructed
    /\ PayloadContent = Undef
    /\ Get(Payload, "id") = W("ai_1")
    /\ out.type = "ai"
    /\ out.content = Str(<<"hello", "\n", "world">>)

NonEmptyArray(v) == IsArray(v) /\ Len(v.a) > 0

NonEmptyMapping(v) == isRecord(v) /\ DOMAIN v.o # {}

\* C24 as stated: tool_calls, invalid_tool_calls, response_metadata and
\* usage_metadata are in the reconstructed AI message only when they are not
\* empty; its id is the id of the payload when that is a string, the id of the
\* transport message otherwise
C24_IncludedOnlyWhenNonEmpty ==
    Reconstructed =>
        /\ out.tool_calls # Undef => NonEmptyArray(out.tool_calls)
        /\ out.invalid_tool_calls # Undef => NonEmptyArray(out.invalid_tool_calls)
        /\ out.response_metadata # Undef => NonEmptyMapping(out.response_metadata)
        /\ out.usage_metadata # Undef => NonEmptyMapping(out.usage_metadata)
        /\ out.id = (IF TypeofString(Get(Payload, "id")) THEN Get(Payload, "id")
                     ELSE msg.messageId)

\* C24 amended: tool_calls and invalid_tool_calls are in the reconstructed AI
\* message only when they are arrays that are not empty; response_metadata is
\* always in it, the payload's when that is a mapping and the empty mapping
\* otherwise; usage_metadata is in it exactly when the payload's is a mapping,
\* empty or not; the id is the id of the payload when that is a string, the id
\* of the transport message otherwise
C24_FieldsOfAIMessage ==
    Reconstructed =>
        /\ out.tool_calls # Undef => NonEmptyArray(out.tool_calls)
        /\ Get(Payload, "tool_calls") \in {Undef, EmptyArr, Arr(<<Null>>)} => out.tool_calls = Undef
        /\ Get(Payload, "tool_calls") = Arr(<<CanonicalCall>>) => NonEmptyArray(out.tool_calls)
        /\ out.invalid_tool_calls # Undef => NonEmptyArray(out.invalid_tool_calls)
        /\ Get(Payload, "invalid_tool_calls") \in {Undef, EmptyArr, Arr(<<Null>>), W("f")}
              => out.invalid_tool_calls = Undef
        /\ Get(Payload, "invalid_tool_calls") = Arr(<<MalformedInvalidCall>>)
              => out.invalid_tool_calls = Arr(<<MalformedInvalidCall>>)
        /\ out.response_metadata = (IF isRecord(Get(Payload, "response_metadata"))
                                    THEN Get(Payload, "response_metadata") ELSE EmptyObj)
        /\ out.usage_metadata = (IF isRecord(Get(Payload, "usage_metadata"))
                                 THEN Get(Payload, "usage_metadata") ELSE Undef)
        /\ out.id = (IF TypeofString(Get(Payload, "id")) THEN Get(Payload, "id")
                     ELSE msg.messageId)

\* C24 witness: a payload with usage metadata and an empty array of invalid
\* tool calls was reconstructed with the usage metadata, without invalid tool
\* calls, under the id of the transport message
C24_Witness ==
    /\ Reconstructed
    /\ Get(Payload, "usage_metadata") = Obj([total_tokens |-> Num(4)])
    /\ Get(Payload, "invalid_tool_calls") = EmptyArr
    /\ out.usage_metadata = Obj([total_tokens |-> Num(4)])
    /\ out.invalid_tool_calls = Undef
    /\ out.id = W("m1")

-----------------------------------------------------------------------------
(* LLMAgentExecutor (index.ts): execute calls that interleave at their awaits,
   and cancelTask.

   pc[e]   position of execute call e: "idle" (not called yet), "calling"
           (awaiting llm.stream), "streaming" (awaiting the next chunk),
           "returned", "threw"
   msg     the state shared by all calls: contexts and cancelledTasks
   ai[e]   the request of call e and its locals
   out[e]  the events call e published on its event bus, in order *)

\* the number of execute calls
MaxExecutes == 2

\* the number of chunks of one stream
MaxChunks == 2

Executes == 1..MaxExecutes

\* uuidv4(): the message id call e draws for its answer
Uuid(e) == W(<<"uuid-1", "uuid-2", "uuid-3", "uuid-4">>[e])

\* tool definitions validateTool throws on
BrokenTools == DataPart(Obj([tools |-> Arr(<<Obj([type |-> W("function"), function |-> Null])>>)]), Undef)

UserMessage(messageId, extraParts) ==
    [NewMessage EXCEPT !.messageId = W(messageId),
                       !.parts = <<TextPart(W("hi"))>> \o extraParts]

\* the request contexts handed to execute
Requests ==
    { [taskId |-> "t1", contextId |-> "c1", task |-> FALSE, userMessage |-> UserMessage("u1", <<>>)],
      [taskId |-> "t1", contextId |-> "c1", task |-> TRUE, userMessage |-> UserMessage("u2", <<>>)],
      [taskId |-> "t2", contextId |-> "c1", task |-> FALSE, userMessage |-> UserMessage("u1", <<>>)],
      [taskId |-> "t2", contextId |-> "c2", task |-> FALSE, userMessage |-> UserMessage("u1", <<>>)],
      [taskId |-> "t1", contextId |-> "c1", task |-> TRUE,
       userMessage |-> UserMessage("u2", <<BrokenTools>>)] }

TaskIds == {r.taskId : r \in Requests}

ContextIds == {r.contextId : r \in Requests}

NoRequest == [taskId |-> "", contextId |-> "", task |-> FALSE, userMessage |-> NewMessage]

\* the locals of a call: error is the error caught, cancelRequested records that cancelTask was invoked
\* for the task of the call while the call was running
NoLocals ==
    [request |-> NoRequest, langchainMessages |-> <<>>, accumulatedText |-> <<>>,
     chunkCount |-> 0, error |-> Undef, cancelRequested |-> FALSE]

TaskEvent(state) ==
    [kind |-> "task", state |-> state, final |-> FALSE, lastChunk |-> FALSE, message |-> Undef]

StatusUpdate(state, final, message) ==
    [kind |-> "status-update", state |-> state, final |-> final, lastChunk |-> FALSE,
     message |-> message]

ArtifactUpdate(text, lastChunk) ==
    [kind |-> "artifact-update", state |-> "", final |-> FALSE, lastChunk |-> lastChunk,
     message |-> text]

AgentText(e, text) ==
    [role |-> "agent", messageId |-> Uuid(e), parts |-> <<TextPart(text)>>,
     taskId |-> W(ai[e].request.taskId), contextId |-> W(ai[e].request.contextId)]

ExecInit ==
    /\ pc = [e \in Executes |-> "idle"]
    /\ msg = [contexts |-> [c \in ContextIds |-> <<>>], cancelledTasks |-> {}]
    /\ ai = [e \in Executes |-> NoLocals]
    /\ out = [e \in Executes |-> <<>>]

Running(e) == pc[e] \in {"calling", "streaming"}

\* cancelTask(taskId)
CancelTask ==
    \E taskId \in TaskIds :
       /\ msg' = [msg EXCEPT !.cancelledTasks = @ \cup {taskId}]
       /\ ai' = [e \in Executes |->
                    IF Running(e) /\ ai[e].request.taskId = taskId
                    THEN [ai[e] EXCEPT !.cancelRequested = TRUE] ELSE ai[e]]
       /\ UNCHANGED <<pc, out>>

\* a variant that pushes the user message without looking for it
WithUserMessageAlways(history, userMessage) == Append(history, userMessage)

\* historyForLLM after `if (!find(...)) push(userMessage)`
WithUserMessage(history, userMessage) ==
    IF \E i \in 1..Len(history) : history[i].messageId = userMessage.messageId
    THEN history
    ELSE Append(history, userMessage)

\* execute up to its first await: steps 1 to 4 and the call of llm.stream; the
\* history holds the user message, so the list of LangChain messages is never
\* empty and the failure of step 3 is never published
Execute(e) ==
    /\ pc[e] = "idle"
    /\ \A d \in Executes : d < e => pc[d] # "idle"
    /\ \E request \in Requests :
          LET history == WithUserMessage(msg.contexts[request.contextId], request.userMessage)
              opening == (IF request.task THEN <<>> ELSE <<TaskEvent("submitted")>>)
                         \o <<StatusUpdate("working", FALSE, Undef)>>
          IN  IF extractToolsFromMessage(request.userMessage).st = "throw"
              THEN /\ pc' = [pc EXCEPT ![e] = "threw"]
                   /\ ai' = [ai EXCEPT ![e].request = request]
                   /\ UNCHANGED <<msg, out>>
              ELSE /\ ai' = [ai EXCEPT ![e].request = request,
                                       ![e].langchainMessages = a2aMessagesToLangChain(history)]
                   /\ IF request.taskId \in msg.cancelledTasks
                      THEN /\ out' = [out EXCEPT ![e] =
                                         opening \o <<StatusUpdate("canceled", TRUE, Undef)>>]
                           /\ msg' = [msg EXCEPT !.contexts[request.contextId] = history,
                                                 !.cancelledTasks = @ \ {request.taskId}]
                           /\ pc' = [pc EXCEPT ![e] = "returned"]
                      ELSE /\ out' = [out EXCEPT ![e] = opening]
                           /\ msg' = [msg EXCEPT !.contexts[request.contextId] = history]
                           /\ pc' = [pc EXCEPT ![e] = "calling"]

\* a variant that reports every error as unknown
CaughtWithoutErrorText(e, errorMessage) ==
    /\ out' = [out EXCEPT ![e] = Append(@,
                 IF ai[e].request.taskId \in msg.cancelledTasks
                 THEN StatusUpdate("canceled", TRUE, Undef)
                 ELSE StatusUpdate("failed", TRUE,
                         AgentText(e, Str(<<"Error processing request: ", "Unknown error">>))))]
    /\ msg' = [msg EXCEPT !.cancelledTasks = @ \ {ai[e].request.taskId}]
    /\ pc' = [pc EXCEPT ![e] = "returned"]
    /\ ai' = [ai EXCEPT ![e].error = errorMessage]

\* the catch and finally blocks of execute, entered with the error thrown
Caught(e, errorMessage) ==
    /\ out' = [out EXCEPT ![e] = Append(@,
                 IF ai[e].request.taskId \in msg.cancelledTasks
                 THEN StatusUpdate("canceled", TRUE, Undef)
                 ELSE StatusUpdate("failed", TRUE,
                         AgentText(e, Str(<<"Error processing request: ">>
                                          \o (IF Truthy(errorMessage) THEN errorMessage.s
                                              ELSE <<"Unknown error">>)))))]
    /\ msg' = [msg EXCEPT !.cancelledTasks = @ \ {ai[e].request.taskId}]
    /\ pc' = [pc EXCEPT ![e] = "returned"]
    /\ ai' = [ai EXCEPT ![e].error = errorMessage]

ErrorMessages == {W("boom"), EmptyStr}

\* llm.stream(langchainMessages) resolves
CallReturns(e) ==
    /\ pc[e] = "calling"
    /\ pc' = [pc EXCEPT ![e] = "streaming"]
    /\ UNCHANGED <<msg, ai, out>>

\* llm.stream(langchainMessages) rejects
CallThrows(e) ==
    /\ pc[e] = "calling"
    /\ \E errorMessage \in ErrorMessages : Caught(e, errorMessage)

ChunkTexts == {W("Hi"), Str(<<" ">>)}

\* one iteration of the for-await loop of streamWithChatCompletions
Chunk(e) ==
    /\ pc[e] = "streaming"
    /\ ai[e].chunkCount < MaxChunks
    /\ IF ai[e].request.taskId \in msg.cancelledTasks
       THEN Caught(e, Str(<<"Task cancelled">>))
       ELSE \E chunkText \in ChunkTexts :
               /\ ai' = [ai EXCEPT ![e].chunkCount = @ + 1,
                                   ![e].accumulatedText = @ \o chunkText.s]
               /\ out' = [out EXCEPT ![e] =
                             IF Truthy(Str(Trim(chunkText.s)))
                             THEN Append(@, ArtifactUpdate(chunkText, FALSE)) ELSE @]
               /\ UNCHANGED <<pc, msg>>

\* the stream throws while execute awaits a chunk
StreamThrows(e) ==
    /\ pc[e] = "streaming"
    /\ \E errorMessage \in ErrorMessages : Caught(e, errorMessage)

\* the AIMessage built from the accumulated chunk
AccumulatedResponse(e) ==
    AIMessage([NoMessage EXCEPT !.content = Str(ai[e].accumulatedText),
                                !.tool_calls = EmptyArr, !.invalid_tool_calls = EmptyArr,
                                !.additional_kwargs = EmptyObj, !.response_metadata = EmptyObj])

\* step 9: the message of the completed status
AgentMessage(e) ==
    IF ai[e].chunkCount > 0
    THEN langChainAIMessageToA2A(AccumulatedResponse(e), Uuid(e),
                                 W(ai[e].request.taskId), W(ai[e].request.contextId))
    ELSE AgentText(e, Str(ai[e].accumulatedText))

\* a variant that appends the answer to the history before it tests for
\* cancellation
StreamEndsAppendsFirst(e) ==
    /\ pc[e] = "streaming"
    /\ out' = [out EXCEPT ![e] = @ \o <<ArtifactUpdate(EmptyStr, TRUE),
                                       IF ai[e].request.taskId \in msg.cancelledTasks
                                       THEN StatusUpdate("canceled", TRUE, Undef)
                                       ELSE StatusUpdate("completed", TRUE, AgentMessage(e))>>]
    /\ msg' = [msg EXCEPT !.contexts[ai[e].request.contextId] = Append(@, AgentMessage(e)),
                          !.cancelledTasks = @ \ {ai[e].request.taskId}]
    /\ pc' = [pc EXCEPT ![e] = "returned"]
    /\ UNCHANGED ai

\* the stream ends: steps 6 to 11 and the finally block
StreamEnds(e) ==
    /\ pc[e] = "streaming"
    /\ IF ai[e].request.taskId \in msg.cancelledTasks
       THEN /\ out' = [out EXCEPT ![e] = @ \o <<ArtifactUpdate(EmptyStr, TRUE),
                                                StatusUpdate("canceled", TRUE, Undef)>>]
            /\ msg' = [msg EXCEPT !.cancelledTasks = @ \ {ai[e].request.taskId}]
       ELSE /\ out' = [out EXCEPT ![e] = @ \o <<ArtifactUpdate(EmptyStr, TRUE),
                                                StatusUpdate("completed", TRUE, AgentMessage(e))>>]
            /\ msg' = [msg EXCEPT !.contexts[ai[e].request.contextId] = Append(@, AgentMessage(e)),
                                  !.cancelledTasks = @ \ {ai[e].request.taskId}]
    /\ pc' = [pc EXCEPT ![e] = "returned"]
    /\ UNCHANGED ai

ExecNext ==
    \/ CancelTask
    \/ \E e \in Executes :
          Execute(e) \/ CallReturns(e) \/ CallThrows(e) \/ Chunk(e) \/ StreamThrows(e) \/ StreamEnds(e)

SpecExec == ExecInit /\ [][ExecNext]_vars
-----------------------------------------------------------------------------
(* Claims about the executor, checked under SpecExec *)

Called == {e \in Executes : pc[e] # "idle"}

Ended == {e \in Executes : pc[e] \in {"returned", "threw"}}

FinalEvents(events) == {i \in 1..Len(events) : events[i].final}

\* the number of events before the artifact updates: submitted, working
Opening(e) == IF ai[e].request.task THEN 1 ELSE 2

\* the events of call e so far are in the order of the protocol
InOrder(e) ==
    LET events == out[e]
        n == Len(events)
    IN  /\ n >= Opening(e)
        /\ ~ai[e].request.task => events[1] = TaskEvent("submitted")
        /\ events[Opening(e)] = StatusUpdate("working", FALSE, Undef)
        /\ \A i \in 1..n : events[i].kind = "task" => (i = 1 /\ ~ai[e].request.task)
        /\ \A i \in (Opening(e) + 1)..n :
              \/ events[i].kind = "artifact-update" /\ ~events[i].final
              \/ /\ i = n
                 /\ events[i].kind = "status-update" /\ events[i].final
                 /\ events[i].state \in {"completed", "failed", "canceled"}
        /\ \A i, j \in 1..n :
              (events[i].kind = "artifact-update" /\ events[i].lastChunk /\ i # j)
                  => \/ j < i /\ ~events[j].lastChunk
                     \/ j = i + 1 /\ events[j].final

\* C25: the events of an execute call are submitted (exactly when the request
\* has no task), working, artifact updates, and one final status completed,
\* failed or canceled, after which nothing is published; the lastChunk marker
\* follows every incremental artifact update and precedes the final status; a
\* call that has ended has published its final status
C25_EventOrdering ==
    /\ \A e \in Called : InOrder(e)
    /\ \A e \in Called \ Ended : FinalEvents(out[e]) = {}
    /\ \A e \in Ended : Cardinality(FinalEvents(out[e])) = 1

\* the state of the final status call e published
FinalState(e) == out[e][Len(out[e])].state

Returned == {e \in Executes : pc[e] = "returned"}

\* C26: a call during which cancelTask was invoked for its task, after it
\* published working and before its final status, ends canceled
C26_CancelledWhileRunning ==
    \A e \in Returned : ai[e].cancelRequested => FinalState(e) = "canceled"

\* call e returns in this step
Returns(e) == pc[e] # "returned" /\ pc'[e] = "returned"

\* C28: a call publishes canceled only if cancelTask was invoked for its task
\* while it was running, and when it returns its task is not in cancelledTasks
C28_CancelledOnlyByOwnCancel ==
    [][\A e \in Executes :
          Returns(e) =>
              /\ ai'[e].request.taskId \notin msg'.cancelledTasks
              /\ out'[e][Len(out'[e])].state = "canceled" => ai'[e].cancelRequested]_vars

\* the final status of a failure with the given error message
Failure(e, errorMessage) ==
    StatusUpdate("failed", TRUE,
        [role |-> "agent", messageId |-> Uuid(e),
         parts |-> <<TextPart(Str(<<"Error processing request: ">> \o errorMessage))>>,
         taskId |-> W(ai[e].request.taskId), contextId |-> W(ai[e].request.contextId)])

HasMarker(events) == \E i \in 1..Len(events) : events[i].lastChunk

\* call e leaves its await with an error in this step: it ends without
\* having published the lastChunk marker
Throws(e) == Running(e) /\ pc'[e] \notin {"calling", "streaming"} /\ ~HasMarker(out'[e])

\* C27: when the chat-model call or its stream throws and the task is not
\* marked as cancelled, the call returns after publishing one more event, the
\* final status failed with an agent text message that carries the error text
\* ("Unknown error" for an error without text), and the histories are as before
C27_FailureIsPublished ==
    [][\A e \in Executes :
          (Throws(e) /\ ai[e].request.taskId \notin msg.cancelledTasks) =>
              /\ pc'[e] = "returned"
              /\ out'[e] = Append(out[e], Failure(e, IF ai'[e].error = EmptyStr
                                                         THEN <<"Unknown error">>
                                                         ELSE ai'[e].error.s))
              /\ msg'.contexts = msg.contexts]_vars

\* C27 witness: a stream threw after a chunk; the call returned with the final
\* status failed carrying the error text and its context holds the user
\* message only
C27_Witness ==
    \E e \in Returned :
       /\ ai[e].chunkCount = 1
       /\ ~ai[e].cancelRequested
       /\ ai[e].error = W("boom")
       /\ out[e][Len(out[e])] = Failure(e, <<"boom">>)
       /\ msg.contexts[ai[e].request.contextId] = <<ai[e].request.userMessage>>

\* the calls in context c that ended completed
Completed(c) ==
    {e \in Returned : ai[e].request.contextId = c /\ FinalState(e) = "completed"}

AgentMessages(history) == {i \in 1..Len(history) : history[i].role = "agent"}

HasMessage(history, messageId) == \E i \in 1..Len(history) : history[i].messageId = messageId

\* the history of every context holds one agent message for each call of the
\* context that ended completed, the message of its completed status, and for
\* a call that ended failed or canceled its user message and no answer
HistoryMatchesOutcomes ==
    /\ \A c \in ContextIds :
          /\ Cardinality(AgentMessages(msg.contexts[c])) = Cardinality(Completed(c))
          /\ \A e \in Completed(c) :
                \E i \in AgentMessages(msg.contexts[c]) :
                   msg.contexts[c][i] = out[e][Len(out[e])].message
    /\ \A e \in Returned :
          FinalState(e) \in {"failed", "canceled"} =>
              /\ HasMessage(msg.contexts[ai[e].request.contextId], ai[e].request.userMessage.messageId)
              /\ ~HasMessage(msg.contexts[ai[e].request.contextId], Uuid(e))

\* a step changes the history of a context only if it is a step of a call in
\* that context
OnlyOwnContext ==
    \A c \in ContextIds :
       msg'.contexts[c] # msg.contexts[c] =>
           \E e \in Executes : pc'[e] # pc[e] /\ ai'[e].request.contextId = c

\* C29: an agent message is appended to the history of a context exactly when
\* a call in that context ends completed, one for each such call and no later
\* than its completed status; a call that ends failed or canceled leaves its
\* user message and no answer; a call changes no history but that of its context
C29_HistoryPerContext ==
    []HistoryMatchesOutcomes /\ [][OnlyOwnContext]_vars

\* C29 witness: of two calls in one context one ended completed and one failed;
\* the history holds the two user messages and the one answer
C29_Witness ==
    /\ Returned = {1, 2}
    /\ ai[1].request.contextId = "c1" /\ ai[2].request.contextId = "c1"
    /\ {FinalState(1), FinalState(2)} = {"completed", "failed"}
    /\ Len(msg.contexts["c1"]) = 3
    /\ Cardinality(AgentMessages(msg.contexts["c1"])) = 1
    /\ msg.contexts["c2"] = <<>>

\* no two messages of a history have the same message id
NoDuplicateIds ==
    \A c \in ContextIds :
       \A i, j \in 1..Len(msg.contexts[c]) :
          msg.contexts[c][i].messageId = msg.contexts[c][j].messageId => i = j

\* call e runs its steps 1 to 4 in this step
Starts(e) == pc[e] = "idle" /\ pc'[e] \in {"calling", "returned"}

Elements(seq) == {seq[i] : i \in 1..Len(seq)}

\* the step that starts a call appends the user message exactly when the
\* history of the context holds no message of that id, and the messages it
\* prepares for the chat model are those of the history, the user message
\* among them (a message id names one message)
AppendsUnlessPresent ==
    \A e \in Executes :
       Starts(e) =>
           LET c == ai'[e].request.contextId
               userMessage == ai'[e].request.userMessage
           IN  /\ msg'.contexts[c] =
                     (IF HasMessage(msg.contexts[c], userMessage.messageId)
                      THEN msg.contexts[c]
                      ELSE Append(msg.contexts[c], userMessage))
               /\ Len(ai'[e].langchainMessages) = Len(msg'.contexts[c])
               /\ a2aMessageToLangChain(userMessage) \in Elements(ai'[e].langchainMessages)

=============================================================================
